---- MODULE Spec2Model ----
(***************************************************************************)
(* Sprint agenda planner of ai-helper: the React component                 *)
(* SprintAgendaPlanner (day mapping, segmentation, bucket derivation,      *)
(* task mutations, sprint fetch) and the /api/clickup/sprint-planner       *)
(* gateway it talks to.                                                    *)
(*                                                                         *)
(* Time is modelled in slots: a timestamp is day * SlotsPerDay + slot, so  *)
(* formatting a timestamp as a day key loses the time of day and parsing   *)
(* a day key gives noon of that day, as the code does.  Day keys are day   *)
(* numbers (>= 1); UNPLANNED_KEY is the sentinel.  Estimates are counted   *)
(* in units of 3 minutes (0.05 h), hours in tenths.                        *)
(***************************************************************************)
EXTENDS Integers, Sequences, FiniteSets, TLC

\* ------------------------------------------------------------------ bounds
\* Slots per calendar day in the timestamp encoding.
SlotsPerDay == 2
\* Mutation requests (PATCH) that may be in flight at once.
MaxReq == 2
\* Mutations (moves and drawer saves) started in one behaviour.
MaxMutations == 2
\* Sprint/person selection changes made by the user in one behaviour.
MaxSelections == 1
\* Quick-select / drop targets offered: the first MaxTargetDay sprint days.
MaxTargetDay == 2
\* Calendar days the date helpers are called with, on their own.
MaxCalcDay == 11
\* Sprints in a loaded calendar the initial choice is made from.
MaxSprints == 3
\* Tasks the tracking service returns in one page of a list.
PageSize == 2

\* ------------------------------------------------------- program constants
UNPLANNED_KEY == 0
\* buildSprintDays: Array.from({ length: 7 })
SprintLength == 7
\* dayBuckets.slice(0, 5): only Monday..Friday columns are rendered
WeekdayColumns == 5

NULL == 0 - 1

\* JavaScript falsiness of a nullable number: !value
Falsy(v) == v = NULL \/ v = 0

\* ------------------------------------------------------------ time helpers
\* new Date(y, m, d, 12, 0, 0, 0): noon of a day
NoonSlot == SlotsPerDay \div 2

Timestamp(day, slot) == day * SlotsPerDay + slot

\* local calendar day of a timestamp (getFullYear/getMonth/getDate)
DayOf(ts) == ts \div SlotsPerDay

formatDateKey(ts) == DayOf(ts)

\* keyToTimestamp building the date at hour 24 instead of 12
keyToTimestampMidnight(key) ==
    IF key <= 0 THEN NULL ELSE Timestamp(key, SlotsPerDay)

keyToTimestamp(key) ==
    IF key = UNPLANNED_KEY THEN NULL
    ELSE IF key <= 0 THEN NULL
    ELSE Timestamp(key, NoonSlot)

msToHours(value) ==
    IF Falsy(value) \/ value <= 0 THEN 0
    ELSE (value + 1) \div 2

hoursToMs(value) ==
    IF value = NULL THEN NULL ELSE value * 2

\* ------------------------------------------------------------ sprint days
\* SprintConfig records: [id, firstMonday, startDate, endDate, listId]
NoSprint == [id |-> "", firstMonday |-> NULL, startDate |-> NULL,
             endDate |-> NULL, listId |-> ""]

\* buildSprintDays anchored at startDate even when firstMonday is present
buildSprintDaysFromStart(sprint) ==
    IF sprint = NoSprint \/ Falsy(sprint.startDate) THEN <<>>
    ELSE [i \in 1..SprintLength |-> DayOf(sprint.startDate) + (i - 1)]

buildSprintDays(sprint) ==
    IF sprint = NoSprint THEN <<>>
    ELSE LET base == IF sprint.firstMonday # NULL THEN sprint.firstMonday
                     ELSE sprint.startDate
         IN IF Falsy(base) THEN <<>>
            ELSE [i \in 1..SprintLength |-> DayOf(base) + (i - 1)]

SeqRange(s) == {s[i] : i \in DOMAIN s}

\* ----------------------------------------------------------- task mapping
\* getTaskDayKey falling back to the start date of a task without due date
getTaskDayKeyOrStart(task) ==
    IF ~Falsy(task.dueDate) THEN formatDateKey(task.dueDate)
    ELSE IF ~Falsy(task.startDate) THEN formatDateKey(task.startDate)
    ELSE UNPLANNED_KEY

getTaskDayKey(task) ==
    IF Falsy(task.dueDate) THEN UNPLANNED_KEY
    ELSE formatDateKey(task.dueDate)

DaysFromTo(a, b) == IF b < a THEN <<>> ELSE [i \in 1..(b - a + 1) |-> a + i - 1]

getTaskDays(task, sprintDays) ==
    IF Falsy(task.startDate) \/ Falsy(task.dueDate)
    THEN LET key == getTaskDayKey(task)
         IN IF key = UNPLANNED_KEY THEN <<>> ELSE <<key>>
    ELSE LET walk == DaysFromTo(DayOf(task.startDate), DayOf(task.dueDate))
             InSprint(d) == d \in SeqRange(sprintDays)
             days == SelectSeq(walk, InSprint)
         IN IF Len(days) > 0 THEN days ELSE <<getTaskDayKey(task)>>

\* createTaskSegments giving every segment the whole estimate
createTaskSegmentsUndivided(task, sprintDays) ==
    LET days == getTaskDays(task, sprintDays)
    IN [i \in 1..Len(days) |->
            [taskId |-> task.id, dayKey |-> days[i],
             hoursNum |-> msToHours(task.timeEstimate), hoursDen |-> 1,
             isStart |-> i = 1, isEnd |-> i = Len(days)]]

\* A segment's hours are totalHours / days.length: kept as the exact
\* fraction hoursNum / hoursDen (tenths of an hour over the day count).
createTaskSegments(task, sprintDays) ==
    LET days == getTaskDays(task, sprintDays)
    IN IF Len(days) = 0 THEN <<>>
       ELSE [i \in 1..Len(days) |->
                [taskId |-> task.id, dayKey |-> days[i],
                 hoursNum |-> msToHours(task.timeEstimate), hoursDen |-> Len(days),
                 isStart |-> i = 1, isEnd |-> i = Len(days)]]

\* The segments of the tasks, in task order, that carry the given day key.
RECURSIVE SegmentsOn(_, _, _)
SegmentsOn(tasks, sprintDays, key) ==
    IF tasks = <<>> THEN <<>>
    ELSE LET segs == createTaskSegments(Head(tasks), sprintDays)
             IsKey(s) == s.dayKey = key
         IN SelectSeq(segs, IsKey) \o SegmentsOn(Tail(tasks), sprintDays, key)

\* dayBuckets: one bucket per sprint day, looked up by the day's key.
dayBuckets(tasks, sprintDays) ==
    [i \in 1..Len(sprintDays) |-> SegmentsOn(tasks, sprintDays, sprintDays[i])]

unplannedTasks(tasks, sprintDays) ==
    LET NoSegments(t) == Len(createTaskSegments(t, sprintDays)) = 0
    IN SelectSeq(tasks, NoSegments)

\* ---------------------------------------------------------------- universe
\* Team directory as loadTeamMembersFromFirebase returns it, sorted by name.
MemberIds == <<"m1", "m2">>

\* Sprint calendar as loadSprintConfigFromFirebase returns it.
SprintA == [id |-> "S1", firstMonday |-> Timestamp(2, 0), startDate |-> Timestamp(2, 0),
            endDate |-> Timestamp(8, NoonSlot), listId |-> "L1"]
SprintB == [id |-> "S2", firstMonday |-> Timestamp(9, 0), startDate |-> Timestamp(9, 0),
            endDate |-> Timestamp(15, NoonSlot), listId |-> "L2"]
\* Date.now() when the planner is opened
Now == Timestamp(3, 0)

TaskIds == {"t1", "t2", "t3"}

\* The tracking service's task records at the start: t1 spans three days
\* and has two assignees, t2 has only a due date, t3 (of the second sprint)
\* is due on a day before that sprint's week.
RemoteInit ==
    [t \in TaskIds |->
        CASE t = "t1" -> [id |-> "t1", name |-> "T1", objective |-> "", acceptanceCriteria |-> "",
                          dueDate |-> Timestamp(4, 0), startDate |-> Timestamp(2, 0),
                          timeEstimate |-> 5, assigneeIds |-> <<"m1", "m2">>, sprint |-> "S1"]
          [] t = "t2" -> [id |-> "t2", name |-> "T2", objective |-> "o", acceptanceCriteria |-> "a",
                          dueDate |-> Timestamp(3, NoonSlot), startDate |-> NULL,
                          timeEstimate |-> NULL, assigneeIds |-> <<"m1">>, sprint |-> "S1"]
          [] OTHER    -> [id |-> "t3", name |-> "T3", objective |-> "o", acceptanceCriteria |-> "",
                          dueDate |-> Timestamp(4, 0), startDate |-> NULL,
                          timeEstimate |-> 4, assigneeIds |-> <<"m2", "m1">>, sprint |-> "S2"]]

NoTask == [id |-> ""]
NoArg == [kind |-> "none"]
NoCalc == [fn |-> "none"]
NoGateway == [op |-> "none"]
NoBanner == "none"

VARIABLES
    members,            \* useState<TeamMember[]>: ids, in display order
    sprints,            \* useState<SprintConfig[]>
    selectedMemberId,
    selectedSprintId,
    allSprintTasks,     \* ALL tasks of the current sprint (before filtering)
    tasksLoading,
    tasksError,
    banner,             \* "none" | "success" | "error"
    pendingTaskIds,     \* the set of ids whose flag is true
    draggingTaskId,
    drawerTask,
    drawerSaving,
    drawerError,
    fetches,            \* GET requests in flight: [sprint, aborted]
    requests,           \* PATCH requests in flight, with the closure of their handler
    remote,             \* the tracking service's tasks
    nMutations,         \* mutations started so far
    nSelections,        \* selection changes made so far
    overlapped,         \* history: ids whose latest mutation started while another was in flight
    localError,         \* TaskEditorDrawer: the inline field error is shown
    arg,                \* the input of a helper function called on its own
    calc,               \* the value that call returned
    gw                  \* a gateway operation run on its own: its progress and outcome

\* The planner's own state.
plannerVars == <<members, sprints, selectedMemberId, selectedSprintId, allSprintTasks,
                 tasksLoading, tasksError, banner, pendingTaskIds, draggingTaskId,
                 drawerTask, drawerSaving, drawerError, fetches, requests, remote,
                 nMutations, nSelections, overlapped, localError>>

vars == <<plannerVars, arg, calc, gw>>

\* ------------------------------------------------------- derived UI state
\* tasks memo: the tasks of the selected member
VisibleTasks(all, memberId) ==
    IF memberId = "" THEN <<>>
    ELSE LET Mine(t) == memberId \in SeqRange(t.assigneeIds)
         IN SelectSeq(all, Mine)

tasks == VisibleTasks(allSprintTasks, selectedMemberId)

FindSprint(list, id) ==
    IF \E i \in DOMAIN list : list[i].id = id
    THEN list[CHOOSE i \in DOMAIN list : list[i].id = id /\ \A j \in 1..(i - 1) : list[j].id # id]
    ELSE NoSprint

activeSprint == FindSprint(sprints, selectedSprintId)
sprintDays == buildSprintDays(activeSprint)

FindTask(list, id) ==
    IF \E i \in DOMAIN list : list[i].id = id
    THEN list[CHOOSE i \in DOMAIN list : list[i].id = id /\ \A j \in 1..(i - 1) : list[j].id # id]
    ELSE NoTask

\* The board (cards) is rendered only in the last branch of the render.
BoardShown ==
    /\ selectedMemberId # "" /\ selectedSprintId # ""
    /\ ~tasksLoading
    /\ ~(Len(tasks) = 0 /\ tasksError = "")

\* A task has a card if it is rendered in the unplanned section (it has no
\* segments) or one of its segments lands in a rendered weekday column.
HasCard(id) ==
    /\ BoardShown
    /\ FindTask(tasks, id) # NoTask
    /\ LET segs == createTaskSegments(FindTask(tasks, id), sprintDays)
       IN \/ Len(segs) = 0
          \/ \E i \in DOMAIN segs : \E c \in 1..WeekdayColumns :
                c <= Len(sprintDays) /\ segs[i].dayKey = sprintDays[c]

\* The drawer is a full-screen modal: it covers the board and the selectors.
DrawerOpen == drawerTask # NoTask

\* effect on [tasks, drawerTask]: keep the drawer's task in step with the list
SyncDrawer(dt, visible) ==
    IF dt = NoTask THEN dt
    ELSE IF FindTask(visible, dt.id) # NoTask THEN FindTask(visible, dt.id) ELSE dt

\* ------------------------------------------------------------------- Init
PlannerInit ==
    /\ members = <<>>
    /\ sprints = <<>>
    /\ selectedMemberId = ""
    /\ selectedSprintId = ""
    /\ allSprintTasks = <<>>
    /\ tasksLoading = FALSE
    /\ tasksError = ""
    /\ banner = NoBanner
    /\ pendingTaskIds = {}
    /\ draggingTaskId = ""
    /\ drawerTask = NoTask
    /\ drawerSaving = FALSE
    /\ drawerError = ""
    /\ fetches = {}
    /\ requests = {}
    /\ remote = RemoteInit
    /\ nMutations = 0
    /\ nSelections = 0
    /\ overlapped = {}
    /\ localError = FALSE

Init ==
    /\ PlannerInit
    /\ arg = NoArg
    /\ calc = NoCalc
    /\ gw = NoGateway

\* ------------------------------------------------- gateway: GET and mapping
\* mapClickUpTask: the PlannerTask of a tracking-service record
mapClickUpTask(task) ==
    [id |-> task.id, name |-> task.name,
     dueDate |-> IF Falsy(task.dueDate) THEN NULL ELSE task.dueDate,
     startDate |-> IF Falsy(task.startDate) THEN NULL ELSE task.startDate,
     timeEstimate |-> task.timeEstimate,
     assigneeIds |-> task.assigneeIds,
     objective |-> task.objective,
     acceptanceCriteria |-> task.acceptanceCriteria]

\* order in which the tracking service lists tasks
TaskOrder == <<"t1", "t2", "t3">>

\* GET /api/clickup/sprint-planner?sprintId=...: all tasks of the sprint
FetchSprintTasks(store, sprintId) ==
    LET InSprint(id) == store[id].sprint = sprintId
        ids == SelectSeq(TaskOrder, InSprint)
    IN [i \in 1..Len(ids) |-> mapClickUpTask(store[ids[i]])]

\* --------------------------------------------------- loading and selection
RECURSIVE InsertByStartDesc(_, _)
InsertByStartDesc(sorted, s) ==
    LET key(x) == IF Falsy(x.startDate) THEN 0 ELSE x.startDate
    IN IF sorted = <<>> THEN <<s>>
       ELSE IF key(Head(sorted)) >= key(s) THEN <<Head(sorted)>> \o InsertByStartDesc(Tail(sorted), s)
       ELSE <<s>> \o sorted

RECURSIVE SortByStartDesc(_)
SortByStartDesc(list) ==
    IF list = <<>> THEN <<>>
    ELSE InsertByStartDesc(SortByStartDesc(SubSeq(list, 1, Len(list) - 1)), list[Len(list)])

\* First index of the list satisfying a rank-minimal condition.
FirstIndex(S) == CHOOSE i \in S : \A j \in S : i <= j

\* The choice without step 2: an upcoming sprint is never preferred.
InitialSprintIdNoUpcoming(list, now) ==
    LET current == {i \in DOMAIN list :
                       /\ ~Falsy(list[i].startDate) /\ ~Falsy(list[i].endDate)
                       /\ list[i].startDate <= now /\ list[i].endDate >= now}
        past == {i \in DOMAIN list : ~Falsy(list[i].endDate) /\ list[i].endDate < now}
        latest == {i \in past : \A j \in past : list[i].endDate >= list[j].endDate}
    IN IF current # {} THEN list[FirstIndex(current)].id
       ELSE IF past # {} THEN list[FirstIndex(latest)].id
       ELSE list[1].id

\* The initial-sprint effect's choice among a non-empty list.
InitialSprintId(list, now) ==
    LET current == {i \in DOMAIN list :
                       /\ ~Falsy(list[i].startDate) /\ ~Falsy(list[i].endDate)
                       /\ list[i].startDate <= now /\ list[i].endDate >= now}
        upcoming == {i \in DOMAIN list : ~Falsy(list[i].startDate) /\ list[i].startDate > now}
        past == {i \in DOMAIN list : ~Falsy(list[i].endDate) /\ list[i].endDate < now}
        soonest == {i \in upcoming : \A j \in upcoming : list[i].startDate <= list[j].startDate}
        latest == {i \in past : \A j \in past : list[i].endDate >= list[j].endDate}
    IN IF current # {} THEN list[FirstIndex(current)].id
       ELSE IF upcoming # {} THEN list[FirstIndex(soonest)].id
       ELSE IF past # {} THEN list[FirstIndex(latest)].id
       ELSE list[1].id

\* effect on [sprints, selectedSprintId]: the selection it leaves
InitialSprintEffect(selected, list, now) ==
    IF selected = "" /\ Len(list) > 0 THEN InitialSprintId(list, now) ELSE selected

\* cleanup of the fetch effect: controller.abort()
\* AbortAll without the cleanup: superseded fetches keep running.
AbortNone(fs) == fs

AbortAll(fs) == {[f EXCEPT !.aborted = TRUE] : f \in fs}

\* The fetch effect, run for a new non-empty selectedSprintId.
StartFetch(sprintId) ==
    /\ fetches' = AbortAll(fetches) \cup {[sprint |-> sprintId, aborted |-> FALSE]}
    /\ tasksLoading' = TRUE
    /\ tasksError' = ""
    /\ drawerTask' = NoTask
    /\ localError' = FALSE

\* loadTeamMembersFromFirebase resolves; the first member gets selected.
MembersLoaded ==
    /\ members = <<>>
    /\ members' = MemberIds
    /\ selectedMemberId' = IF selectedMemberId = "" THEN MemberIds[1] ELSE selectedMemberId
    /\ drawerTask' = SyncDrawer(drawerTask, VisibleTasks(allSprintTasks, selectedMemberId'))
    /\ UNCHANGED <<localError, arg, calc, gw, sprints, selectedSprintId, allSprintTasks, tasksLoading, tasksError,
                   banner, pendingTaskIds, draggingTaskId, drawerSaving, drawerError,
                   fetches, requests, remote, nMutations, nSelections, overlapped>>

\* loadSprintConfigFromFirebase resolves; the initial sprint gets selected
\* and its tasks are fetched.
SprintsLoaded ==
    /\ sprints = <<>>
    /\ sprints' = SortByStartDesc(<<SprintA, SprintB>>)
    /\ selectedSprintId' = InitialSprintEffect(selectedSprintId, sprints', Now)
    /\ StartFetch(selectedSprintId')
    /\ UNCHANGED <<arg, calc, gw, members, selectedMemberId, allSprintTasks, banner, pendingTaskIds,
                   draggingTaskId, drawerSaving, drawerError, requests, remote,
                   nMutations, nSelections, overlapped>>

\* A person change that also runs the fetch effect for the current sprint.
SelectMemberRefetch(m) ==
    /\ members # <<>> /\ m \in SeqRange(members) /\ m # selectedMemberId
    /\ ~DrawerOpen
    /\ nSelections < MaxSelections
    /\ nSelections' = nSelections + 1
    /\ selectedMemberId' = m
    /\ StartFetch(selectedSprintId)
    /\ UNCHANGED <<arg, calc, gw, members, sprints, selectedSprintId, allSprintTasks, banner,
                   pendingTaskIds, draggingTaskId, drawerSaving, drawerError,
                   requests, remote, nMutations, overlapped>>

\* <select> Persona: onChange
SelectMember(m) ==
    /\ members # <<>> /\ m \in SeqRange(members) /\ m # selectedMemberId
    /\ ~DrawerOpen
    /\ nSelections < MaxSelections
    /\ nSelections' = nSelections + 1
    /\ selectedMemberId' = m
    /\ drawerTask' = SyncDrawer(drawerTask, VisibleTasks(allSprintTasks, m))
    /\ UNCHANGED <<localError, arg, calc, gw, members, sprints, selectedSprintId, allSprintTasks, tasksLoading,
                   tasksError, banner, pendingTaskIds, draggingTaskId, drawerSaving,
                   drawerError, fetches, requests, remote, nMutations, overlapped>>

\* <select> Sprint: onChange, then the fetch effect
SelectSprint(s) ==
    /\ sprints # <<>> /\ FindSprint(sprints, s) # NoSprint /\ s # selectedSprintId
    /\ ~DrawerOpen
    /\ nSelections < MaxSelections
    /\ nSelections' = nSelections + 1
    /\ selectedSprintId' = s
    /\ StartFetch(s)
    /\ UNCHANGED <<arg, calc, gw, members, sprints, selectedMemberId, allSprintTasks, banner,
                   pendingTaskIds, draggingTaskId, drawerSaving, drawerError,
                   requests, remote, nMutations, overlapped>>

\* The GET resolves with ok: the then-branch and finally of the fetch effect.
FetchSucceed(f) ==
    /\ f \in fetches /\ ~f.aborted
    /\ fetches' = fetches \ {f}
    /\ allSprintTasks' = FetchSprintTasks(remote, f.sprint)
    /\ tasksLoading' = FALSE
    /\ drawerTask' = SyncDrawer(drawerTask, VisibleTasks(allSprintTasks', selectedMemberId))
    /\ UNCHANGED <<localError, arg, calc, gw, members, sprints, selectedMemberId, selectedSprintId, tasksError,
                   banner, pendingTaskIds, draggingTaskId, drawerSaving, drawerError,
                   requests, remote, nMutations, nSelections, overlapped>>

\* The GET fails (not ok, or a network error): catch and finally.
FetchFail(f) ==
    /\ f \in fetches /\ ~f.aborted
    /\ fetches' = fetches \ {f}
    /\ allSprintTasks' = <<>>
    /\ tasksError' = "error"
    /\ tasksLoading' = FALSE
    /\ drawerTask' = SyncDrawer(drawerTask, <<>>)
    /\ UNCHANGED <<localError, arg, calc, gw, members, sprints, selectedMemberId, selectedSprintId,
                   banner, pendingTaskIds, draggingTaskId, drawerSaving, drawerError,
                   requests, remote, nMutations, nSelections, overlapped>>

\* An aborted GET rejects with an AbortError: catch returns at once and
\* finally skips setTasksLoading.
FetchAborted(f) ==
    /\ f \in fetches /\ f.aborted
    /\ fetches' = fetches \ {f}
    /\ UNCHANGED <<localError, arg, calc, gw, members, sprints, selectedMemberId, selectedSprintId, allSprintTasks,
                   tasksLoading, tasksError, banner, pendingTaskIds, draggingTaskId,
                   drawerTask, drawerSaving, drawerError, requests, remote,
                   nMutations, nSelections, overlapped>>

\* ------------------------------------------------------ gateway: PATCH
\* String.prototype.trim on the strings of the model (" " is blank input)
Trim(str) == IF str = " " THEN "" ELSE str

\* buildClickUpDescription, kept as the two sections parseClickUpDescription
\* reads back from the markdown it builds
buildClickUpDescription(title, objective, acceptanceCriteria) ==
    LET safeObjective == Trim(objective)
        safeAcceptance == Trim(acceptanceCriteria)
    IN [objective |-> IF safeObjective # "" THEN safeObjective
                      ELSE IF Trim(title) # "" THEN Trim(title)
                      ELSE "Objective pending",
        acceptanceCriteria |-> safeAcceptance]

UpdateKeys == {"name", "objective", "acceptanceCriteria", "assigneeId",
               "dueDate", "startDate", "timeEstimateMs"}

\* The update body without the start-date fallback to the due date
PatchBodyNoFallback(updates, currentName) ==
    [keys |-> (IF "name" \in updates.keys THEN {"name"} ELSE {})
              \cup (IF "dueDate" \in updates.keys THEN {"due_date"} ELSE {})
              \cup (IF "startDate" \in updates.keys THEN {"start_date"} ELSE {})
              \cup (IF "timeEstimateMs" \in updates.keys THEN {"time_estimate"} ELSE {})
              \cup (IF "assigneeId" \in updates.keys THEN {"assignees"} ELSE {}),
     name |-> Trim(updates.name),
     markdown_description |-> buildClickUpDescription(currentName, "", ""),
     due_date |-> updates.dueDate,
     start_date |-> updates.startDate,
     time_estimate |-> updates.timeEstimateMs,
     assignees |-> IF updates.assigneeId # "" THEN <<updates.assigneeId>> ELSE <<>>]

\* PATCH: the update body sent to the tracking service, as [keys, ...fields]
PatchBody(updates, currentName) ==
    LET hasDescription == "objective" \in updates.keys \/ "acceptanceCriteria" \in updates.keys
        title == IF "name" \in updates.keys /\ Trim(updates.name) # "" THEN updates.name
                 ELSE IF currentName # "" THEN currentName ELSE "Task"
    IN [keys |-> (IF "name" \in updates.keys THEN {"name"} ELSE {})
                 \cup (IF hasDescription THEN {"markdown_description"} ELSE {})
                 \cup (IF "dueDate" \in updates.keys THEN {"due_date"} ELSE {})
                 \cup (IF "startDate" \in updates.keys \/ "dueDate" \in updates.keys
                       THEN {"start_date"} ELSE {})
                 \cup (IF "timeEstimateMs" \in updates.keys THEN {"time_estimate"} ELSE {})
                 \cup (IF "assigneeId" \in updates.keys THEN {"assignees"} ELSE {}),
        name |-> Trim(updates.name),
        markdown_description |->
            buildClickUpDescription(title,
                IF "objective" \in updates.keys THEN updates.objective ELSE "",
                IF "acceptanceCriteria" \in updates.keys THEN updates.acceptanceCriteria ELSE ""),
        due_date |-> updates.dueDate,
        start_date |-> IF "startDate" \in updates.keys THEN updates.startDate ELSE updates.dueDate,
        time_estimate |-> updates.timeEstimateMs,
        assignees |-> IF updates.assigneeId # "" THEN <<updates.assigneeId>> ELSE <<>>]

\* The tracking service's PUT /task/{id}: the fields of the body replace the task's.
ApplyBody(task, body) ==
    [id |-> task.id, sprint |-> task.sprint,
     name |-> IF "name" \in body.keys THEN body.name ELSE task.name,
     objective |-> IF "markdown_description" \in body.keys
                   THEN body.markdown_description.objective ELSE task.objective,
     acceptanceCriteria |-> IF "markdown_description" \in body.keys
                            THEN body.markdown_description.acceptanceCriteria
                            ELSE task.acceptanceCriteria,
     dueDate |-> IF "due_date" \in body.keys THEN body.due_date ELSE task.dueDate,
     startDate |-> IF "start_date" \in body.keys THEN body.start_date ELSE task.startDate,
     timeEstimate |-> IF "time_estimate" \in body.keys THEN body.time_estimate ELSE task.timeEstimate,
     assigneeIds |-> IF "assignees" \in body.keys THEN body.assignees ELSE task.assigneeIds]

\* The assignee lists the tracking service may return for a task: the full
\* list, or the list narrowed by one member.
AssigneeViews(ids) ==
    {ids} \cup {SelectSeq(ids, LAMBDA x : x # m) : m \in SeqRange(ids)}

\* The text of the hours field: empty, the decimal text of a number (in
\* tenths of an hour), or text that is no number.
EmptyText == [kind |-> "empty", num |-> 0]
HoursText(n) == [kind |-> "number", num |-> n]
BadText == [kind |-> "text", num |-> 0]

\* handleSubmit without the Number.isFinite test
HoursValidAny(text) == text.kind \in {"empty", "number", "text"}

\* handleSubmit: Number.isFinite(Number(hours)) unless the field is empty
HoursValid(text) == text.kind # "text"

\* The form submitting whatever number the hours input holds
FormAcceptsAny(text) == text.kind \in {"empty", "number", "text"}

\* <input type="number" min="0"> in a form without noValidate: the form is
\* not submitted while the field holds a number below 0
FormAccepts(text) == text.kind = "number" => text.num >= 0

\* handleSubmit: hours.trim() === "" ? null : Number(hours)
ParseHours(text) == IF text.kind = "empty" THEN NULL ELSE text.num

\* ------------------------------------------------------------- mutations
NoUpdates == [keys |-> {}, name |-> "", objective |-> "", acceptanceCriteria |-> "",
              assigneeId |-> "", dueDate |-> NULL, startDate |-> NULL, timeEstimateMs |-> NULL]

FreeRid == CHOOSE r \in 1..MaxReq :
              /\ \A q \in requests : q.rid # r
              /\ \A r2 \in 1..(r - 1) : \E q \in requests : q.rid = r2

\* history: the task is recorded when its new mutation overlaps one in flight
Overlap(taskId) ==
    IF \E q \in requests : q.taskId = taskId
    THEN overlapped \cup {taskId} ELSE overlapped \ {taskId}

CanSend == Cardinality(requests) < MaxReq /\ nMutations < MaxMutations

\* setTaskPending that only ever sets the flag.
setTaskPendingOnly(prev, taskId, pending) == prev \cup {taskId}

setTaskPending(prev, taskId, pending) ==
    IF pending THEN prev \cup {taskId} ELSE prev \ {taskId}

\* ReplaceTask without the id test: every entry becomes the updated task.
ReplaceEvery(prev, taskId, updated) == [i \in DOMAIN prev |-> updated]

\* setAllSprintTasks((prev) => prev.map((t) => (t.id === taskId ? updated : t)))
ReplaceTask(prev, taskId, updated) ==
    [i \in DOMAIN prev |-> IF prev[i].id = taskId THEN updated ELSE prev[i]]

\* The day keys a card's quick selector and the drop zones offer.
TargetKeys ==
    {UNPLANNED_KEY} \cup {sprintDays[i] : i \in {j \in DOMAIN sprintDays : j <= MaxTargetDay}}

DropKeys ==
    {UNPLANNED_KEY} \cup {sprintDays[i] : i \in {j \in DOMAIN sprintDays :
                                                   j <= MaxTargetDay /\ j <= WeekdayColumns}}

\* handleTaskMove up to its await: true when a request is to be sent
MoveIsSent(taskId, targetDayKey) ==
    /\ FindTask(tasks, taskId) # NoTask
    /\ getTaskDayKey(FindTask(tasks, taskId)) # targetDayKey

\* handleTaskMove sending the due date only
MoveUpdatesDueOnly(targetDayKey) ==
    LET timestamp == IF targetDayKey = UNPLANNED_KEY THEN NULL ELSE keyToTimestamp(targetDayKey)
    IN [NoUpdates EXCEPT !.keys = {"dueDate"}, !.dueDate = timestamp]

MoveUpdates(targetDayKey) ==
    LET timestamp == IF targetDayKey = UNPLANNED_KEY THEN NULL ELSE keyToTimestamp(targetDayKey)
    IN [NoUpdates EXCEPT !.keys = {"dueDate", "startDate"},
                         !.dueDate = timestamp, !.startDate = timestamp]

MoveRequest(taskId, targetDayKey) ==
    [rid |-> FreeRid, kind |-> "move", taskId |-> taskId,
     updates |-> MoveUpdates(targetDayKey),
     currentName |-> FindTask(tasks, taskId).name,
     status |-> "sent", response |-> NoTask,
     origAssignees |-> <<>>, member |-> "", target |-> targetDayKey,
     hours |-> EmptyText]

\* Quick day selector of a card: onChange -> handleTaskMove
QuickSelect(taskId, targetDayKey) ==
    /\ CanSend
    /\ ~DrawerOpen /\ draggingTaskId = ""
    /\ targetDayKey \in TargetKeys
    /\ HasCard(taskId)
    /\ MoveIsSent(taskId, targetDayKey)
    /\ requests' = requests \cup {MoveRequest(taskId, targetDayKey)}
    /\ pendingTaskIds' = setTaskPending(pendingTaskIds, taskId, TRUE)
    /\ nMutations' = nMutations + 1
    /\ overlapped' = Overlap(taskId)
    /\ UNCHANGED <<localError, arg, calc, gw, members, sprints, selectedMemberId, selectedSprintId, allSprintTasks,
                   tasksLoading, tasksError, banner, draggingTaskId, drawerTask,
                   drawerSaving, drawerError, fetches, remote, nSelections>>

\* onDragStart of a card (draggable only when not pending)
DragStart(taskId) ==
    /\ ~DrawerOpen /\ draggingTaskId = ""
    /\ taskId \notin pendingTaskIds
    /\ nMutations < MaxMutations
    /\ HasCard(taskId)
    /\ draggingTaskId' = taskId
    /\ UNCHANGED <<localError, arg, calc, gw, members, sprints, selectedMemberId, selectedSprintId, allSprintTasks,
                   tasksLoading, tasksError, banner, pendingTaskIds, drawerTask,
                   drawerSaving, drawerError, fetches, requests, remote,
                   nMutations, nSelections, overlapped>>

\* The drag ends outside a drop zone: onDragEnd
DragEnd ==
    /\ draggingTaskId # ""
    /\ draggingTaskId' = ""
    /\ UNCHANGED <<localError, arg, calc, gw, members, sprints, selectedMemberId, selectedSprintId, allSprintTasks,
                   tasksLoading, tasksError, banner, pendingTaskIds, drawerTask,
                   drawerSaving, drawerError, fetches, requests, remote,
                   nMutations, nSelections, overlapped>>

\* onDrop of a day column or of the unplanned section -> handleTaskMove,
\* followed by the card's onDragEnd
Drop(targetDayKey) ==
    /\ draggingTaskId # "" /\ BoardShown
    /\ targetDayKey \in DropKeys
    /\ IF MoveIsSent(draggingTaskId, targetDayKey)
       THEN /\ CanSend
            /\ requests' = requests \cup {MoveRequest(draggingTaskId, targetDayKey)}
            /\ pendingTaskIds' = setTaskPending(pendingTaskIds, draggingTaskId, TRUE)
            /\ nMutations' = nMutations + 1
            /\ overlapped' = Overlap(draggingTaskId)
       ELSE UNCHANGED <<requests, pendingTaskIds, nMutations, overlapped>>
    /\ draggingTaskId' = ""
    /\ UNCHANGED <<localError, arg, calc, gw, members, sprints, selectedMemberId, selectedSprintId, allSprintTasks,
                   tasksLoading, tasksError, banner, drawerTask,
                   drawerSaving, drawerError, fetches, remote, nSelections>>

\* The gateway and the tracking service handle a PATCH: the task is updated
\* and the response carries the mapped task (its assignee list possibly
\* narrowed by the service).
ServerApply(r) ==
    /\ r \in requests /\ r.status = "sent"
    /\ \E body \in {PatchBody(r.updates, r.currentName)} :
       \E updated \in {ApplyBody(remote[r.taskId], body)} :
       \E view \in AssigneeViews(updated.assigneeIds) :
          /\ body.keys # {}
          /\ remote' = [remote EXCEPT ![r.taskId] = updated]
          /\ requests' = (requests \ {r}) \cup
                {[r EXCEPT !.status = "ok",
                           !.response = [mapClickUpTask(updated) EXCEPT !.assigneeIds = view]]}
    /\ UNCHANGED <<localError, arg, calc, gw, members, sprints, selectedMemberId, selectedSprintId, allSprintTasks,
                   tasksLoading, tasksError, banner, pendingTaskIds, draggingTaskId,
                   drawerTask, drawerSaving, drawerError, fetches, nMutations, nSelections, overlapped>>

\* The tracking service rejects the update (response not ok).
ServerReject(r) ==
    /\ r \in requests /\ r.status = "sent"
    /\ requests' = (requests \ {r}) \cup {[r EXCEPT !.status = "err"]}
    /\ UNCHANGED <<localError, arg, calc, gw, members, sprints, selectedMemberId, selectedSprintId, allSprintTasks,
                   tasksLoading, tasksError, banner, pendingTaskIds, draggingTaskId,
                   drawerTask, drawerSaving, drawerError, fetches, remote,
                   nMutations, nSelections, overlapped>>

\* handleTaskMove after its await resolved: try-branch and finally
MoveCommit(r) ==
    /\ r \in requests /\ r.kind = "move" /\ r.status = "ok"
    /\ requests' = requests \ {r}
    /\ allSprintTasks' = ReplaceTask(allSprintTasks, r.taskId, r.response)
    /\ banner' = "success"
    /\ pendingTaskIds' = setTaskPending(pendingTaskIds, r.taskId, FALSE)
    /\ draggingTaskId' = ""
    /\ drawerTask' = SyncDrawer(drawerTask, VisibleTasks(allSprintTasks', selectedMemberId))
    /\ UNCHANGED <<localError, arg, calc, gw, members, sprints, selectedMemberId, selectedSprintId, tasksLoading,
                   tasksError, drawerSaving, drawerError, fetches, remote,
                   nMutations, nSelections, overlapped>>

\* MoveReject that also drops the task from the list.
MoveRejectDropsTask(r) ==
    /\ r \in requests /\ r.kind = "move" /\ r.status = "err"
    /\ requests' = requests \ {r}
    /\ banner' = "error"
    /\ pendingTaskIds' = setTaskPending(pendingTaskIds, r.taskId, FALSE)
    /\ draggingTaskId' = ""
    /\ allSprintTasks' = SelectSeq(allSprintTasks, LAMBDA t : t.id # r.taskId)
    /\ UNCHANGED <<localError, arg, calc, gw, members, sprints, selectedMemberId, selectedSprintId,
                   tasksLoading, tasksError, drawerTask, drawerSaving, drawerError,
                   fetches, remote, nMutations, nSelections, overlapped>>

\* handleTaskMove after its await rejected: catch and finally
MoveReject(r) ==
    /\ r \in requests /\ r.kind = "move" /\ r.status = "err"
    /\ requests' = requests \ {r}
    /\ banner' = "error"
    /\ pendingTaskIds' = setTaskPending(pendingTaskIds, r.taskId, FALSE)
    /\ draggingTaskId' = ""
    /\ UNCHANGED <<localError, arg, calc, gw, members, sprints, selectedMemberId, selectedSprintId, allSprintTasks,
                   tasksLoading, tasksError, drawerTask, drawerSaving, drawerError,
                   fetches, remote, nMutations, nSelections, overlapped>>

\* ---------------------------------------------------------------- drawer
\* A card is tapped: setDrawerTask(task)
OpenDrawer(taskId) ==
    /\ ~DrawerOpen /\ draggingTaskId = ""
    /\ nMutations < MaxMutations
    /\ HasCard(taskId)
    /\ drawerTask' = FindTask(tasks, taskId)
    /\ UNCHANGED <<localError, arg, calc, gw, members, sprints, selectedMemberId, selectedSprintId, allSprintTasks,
                   tasksLoading, tasksError, banner, pendingTaskIds, draggingTaskId,
                   drawerSaving, drawerError, fetches, requests, remote,
                   nMutations, nSelections, overlapped>>

\* Cancelar, the close button, the backdrop or Escape: onClose
CloseDrawer ==
    /\ DrawerOpen
    /\ drawerTask' = NoTask
    /\ localError' = FALSE
    /\ UNCHANGED <<arg, calc, gw, members, sprints, selectedMemberId, selectedSprintId, allSprintTasks,
                   tasksLoading, tasksError, banner, pendingTaskIds, draggingTaskId,
                   drawerSaving, drawerError, fetches, requests, remote,
                   nMutations, nSelections, overlapped>>

\* TaskEditorDrawer: the form as filled in from the task
Prefill(task) ==
    [name |-> task.name, objective |-> task.objective,
     acceptanceCriteria |-> task.acceptanceCriteria,
     assigneeId |-> IF Len(task.assigneeIds) > 0 THEN task.assigneeIds[1] ELSE "",
     dayKey |-> getTaskDayKey(task),
     hours |-> IF Falsy(task.timeEstimate) THEN EmptyText
               ELSE HoursText(msToHours(task.timeEstimate))]

\* The forms the user may submit: the prefilled one, or one field edited.
FormHours == {EmptyText, HoursText(3), HoursText(0 - 2), BadText}
FormInputs(task) ==
    {Prefill(task)}
    \cup {[Prefill(task) EXCEPT !.dayKey = k] : k \in TargetKeys}
    \cup {[Prefill(task) EXCEPT !.assigneeId = a] : a \in SeqRange(members) \cup {""}}
    \cup {[Prefill(task) EXCEPT !.hours = h] : h \in FormHours}
    \cup {[Prefill(task) EXCEPT !.objective = o] : o \in {" "}}

\* TaskEditorDrawer.handleSubmit: the payload handed to onSave
SubmitPayload(form) ==
    [name |-> Trim(form.name), objective |-> Trim(form.objective),
     acceptanceCriteria |-> Trim(form.acceptanceCriteria),
     assigneeId |-> form.assigneeId, dayKey |-> form.dayKey,
     hours |-> ParseHours(form.hours)]

SaveUpdates(payload) ==
    LET timestamp == IF payload.dayKey = UNPLANNED_KEY THEN NULL
                     ELSE keyToTimestamp(payload.dayKey)
    IN [keys |-> UpdateKeys, name |-> payload.name, objective |-> payload.objective,
        acceptanceCriteria |-> payload.acceptanceCriteria,
        assigneeId |-> payload.assigneeId,
        dueDate |-> timestamp, startDate |-> timestamp,
        timeEstimateMs |-> hoursToMs(payload.hours)]

\* Guardar cambios: handleSubmit -> handleDrawerSave up to its await
DrawerSubmit(form) ==
    /\ DrawerOpen /\ ~drawerSaving
    /\ form \in FormInputs(drawerTask)
    /\ FormAccepts(form.hours)
    /\ HoursValid(form.hours)
    /\ CanSend
    /\ LET payload == SubmitPayload(form)
       IN requests' = requests \cup
            {[rid |-> FreeRid, kind |-> "save", taskId |-> drawerTask.id,
              updates |-> SaveUpdates(payload), currentName |-> payload.name,
              status |-> "sent", response |-> NoTask,
              origAssignees |-> drawerTask.assigneeIds, member |-> selectedMemberId,
              target |-> payload.dayKey, hours |-> form.hours]}
    /\ drawerSaving' = TRUE
    /\ drawerError' = ""
    /\ nMutations' = nMutations + 1
    /\ overlapped' = Overlap(drawerTask.id)
    /\ localError' = FALSE
    /\ UNCHANGED <<arg, calc, gw, members, sprints, selectedMemberId, selectedSprintId, allSprintTasks,
                   tasksLoading, tasksError, banner, pendingTaskIds, draggingTaskId,
                   drawerTask, fetches, remote, nSelections>>

\* Guardar cambios with text in the hours field that is no number:
\* handleSubmit sets the inline error and returns before onSave
DrawerSubmitInvalid(form) ==
    /\ DrawerOpen /\ ~drawerSaving
    /\ form \in FormInputs(drawerTask)
    /\ ~HoursValid(form.hours)
    /\ localError' = TRUE
    /\ UNCHANGED <<arg, calc, gw, members, sprints, selectedMemberId, selectedSprintId, allSprintTasks,
                   tasksLoading, tasksError, banner, pendingTaskIds, draggingTaskId,
                   drawerTask, drawerSaving, drawerError, fetches, requests, remote,
                   nMutations, nSelections, overlapped>>

\* handleDrawerSave: the assignee list kept for the reconciled task
preservedAssignees(updatedIds, memberId, originalIds) ==
    IF Len(updatedIds) > 0 /\ memberId \in SeqRange(updatedIds)
    THEN updatedIds ELSE originalIds

\* handleDrawerSave after its await resolved: try-branch and finally
SaveCommit(r) ==
    /\ r \in requests /\ r.kind = "save" /\ r.status = "ok"
    /\ requests' = requests \ {r}
    /\ LET taskWithAssignees ==
               [r.response EXCEPT !.assigneeIds =
                    preservedAssignees(r.response.assigneeIds, r.member, r.origAssignees)]
       IN allSprintTasks' = ReplaceTask(allSprintTasks, r.taskId, taskWithAssignees)
    /\ drawerTask' = NoTask
    /\ banner' = "success"
    /\ drawerSaving' = FALSE
    /\ localError' = FALSE
    /\ UNCHANGED <<arg, calc, gw, members, sprints, selectedMemberId, selectedSprintId, tasksLoading,
                   tasksError, pendingTaskIds, draggingTaskId, drawerError, fetches,
                   remote, nMutations, nSelections, overlapped>>

\* handleDrawerSave after its await rejected: catch and finally
SaveReject(r) ==
    /\ r \in requests /\ r.kind = "save" /\ r.status = "err"
    /\ requests' = requests \ {r}
    /\ drawerError' = "error"
    /\ drawerSaving' = FALSE
    /\ UNCHANGED <<localError, arg, calc, gw, members, sprints, selectedMemberId, selectedSprintId, allSprintTasks,
                   tasksLoading, tasksError, banner, pendingTaskIds, draggingTaskId,
                   drawerTask, fetches, remote, nMutations, nSelections, overlapped>>

\* the banner's 4000 ms timeout fires
BannerTimeout ==
    /\ banner # NoBanner
    /\ banner' = NoBanner
    /\ UNCHANGED <<localError, arg, calc, gw, members, sprints, selectedMemberId, selectedSprintId, allSprintTasks,
                   tasksLoading, tasksError, pendingTaskIds, draggingTaskId,
                   drawerTask, drawerSaving, drawerError, fetches, requests, remote,
                   nMutations, nSelections, overlapped>>

\* ------------------------------------------------------------------ Next
Next ==
    \/ MembersLoaded
    \/ SprintsLoaded
    \/ \E m \in SeqRange(MemberIds) : SelectMember(m)
    \/ \E s \in {SprintA.id, SprintB.id} : SelectSprint(s)
    \/ \E f \in fetches : FetchSucceed(f)
    \/ \E f \in fetches : FetchFail(f)
    \/ \E f \in fetches : FetchAborted(f)
    \/ \E t \in TaskIds, k \in TargetKeys : QuickSelect(t, k)
    \/ \E t \in TaskIds : DragStart(t)
    \/ DragEnd
    \/ \E k \in DropKeys : Drop(k)
    \/ \E t \in TaskIds : OpenDrawer(t)
    \/ CloseDrawer
    \/ DrawerOpen /\ \E form \in FormInputs(drawerTask) : DrawerSubmit(form)
    \/ DrawerOpen /\ \E form \in FormInputs(drawerTask) : DrawerSubmitInvalid(form)
    \/ \E r \in requests : ServerApply(r)
    \/ \E r \in requests : ServerReject(r)
    \/ \E r \in requests : MoveCommit(r)
    \/ \E r \in requests : MoveReject(r)
    \/ \E r \in requests : SaveCommit(r)
    \/ \E r \in requests : SaveReject(r)
    \/ BannerTimeout

Spec == Init /\ [][Next]_vars

\* ======================================================================
\* The date helpers and the initial-sprint choice called on their own
\* ======================================================================
\* Timestamps of the days 1..MaxCalcDay, any time of day.
CalcDates == {Timestamp(d, sl) : d \in 1..MaxCalcDay, sl \in 0..(SlotsPerDay - 1)}

\* Tasks with every combination of due date, start date and estimate.
CalcTasks ==
    {[id |-> "x", name |-> "X", objective |-> "", acceptanceCriteria |-> "",
      assigneeIds |-> <<"m1">>, dueDate |-> d, startDate |-> st, timeEstimate |-> e] :
        d \in CalcDates \cup {NULL}, st \in CalcDates \cup {NULL},
        e \in {NULL, 0, 0 - 4, 5, 6}}

\* Sprints with and without firstMonday and startDate; the week anchored at
\* firstMonday is days 3..9.
CalcSprints ==
    {NoSprint} \cup
    {[id |-> "S", firstMonday |-> fm, startDate |-> sd, endDate |-> NULL, listId |-> "L"] :
        fm \in {NULL, Timestamp(3, 0), Timestamp(3, NoonSlot)},
        sd \in {NULL, Timestamp(2, NoonSlot)}}

\* The sprints a loaded calendar is made of: three consecutive weeks, a
\* week overlapping the first, a sprint without dates and one without end.
SprintPool ==
    {[id |-> "P1", firstMonday |-> NULL, startDate |-> Timestamp(2, 0),
      endDate |-> Timestamp(8, NoonSlot), listId |-> "L"],
     [id |-> "P2", firstMonday |-> NULL, startDate |-> Timestamp(9, 0),
      endDate |-> Timestamp(15, NoonSlot), listId |-> "L"],
     [id |-> "P3", firstMonday |-> NULL, startDate |-> Timestamp(16, 0),
      endDate |-> Timestamp(22, NoonSlot), listId |-> "L"],
     [id |-> "P4", firstMonday |-> NULL, startDate |-> Timestamp(3, 0),
      endDate |-> Timestamp(9, NoonSlot), listId |-> "L"],
     [id |-> "P5", firstMonday |-> NULL, startDate |-> NULL,
      endDate |-> NULL, listId |-> "L"],
     [id |-> "P6", firstMonday |-> NULL, startDate |-> Timestamp(2, 0),
      endDate |-> NULL, listId |-> "L"]}

\* The loaded arrays: up to MaxSprints different sprints in any order.
SprintLists ==
    {list \in UNION {[1..n -> SprintPool] : n \in 0..MaxSprints} :
        \A i, j \in DOMAIN list : i # j => list[i].id # list[j].id}

CalcNows == {Timestamp(1, 0), Timestamp(3, 0), Timestamp(10, NoonSlot), Timestamp(23, 0)}

\* Each behaviour draws one input and makes one call with it.
CalcInit ==
    /\ PlannerInit
    /\ calc = NoCalc
    /\ gw = NoGateway
    /\ \/ \E t \in CalcTasks, sp \in CalcSprints :
             arg = [kind |-> "task", task |-> t, sprint |-> sp]
       \/ \E list \in SprintLists, now \in CalcNows, sel \in {"", "P0"} :
             arg = [kind |-> "sprints", list |-> list, now |-> now, selected |-> sel]

CallBuildSprintDays ==
    /\ calc = NoCalc
    /\ arg.kind = "task"
    /\ calc' = [fn |-> "buildSprintDays", days |-> buildSprintDays(arg.sprint)]
    /\ UNCHANGED <<plannerVars, arg, gw>>

CallKeyToTimestamp(key) ==
    /\ calc = NoCalc
    /\ arg.kind = "task"
    /\ key \in SeqRange(buildSprintDays(arg.sprint))
    /\ calc' = [fn |-> "keyToTimestamp", key |-> key, ts |-> keyToTimestamp(key)]
    /\ UNCHANGED <<plannerVars, arg, gw>>

CallGetTaskDays ==
    /\ calc = NoCalc
    /\ arg.kind = "task"
    /\ calc' = [fn |-> "getTaskDays",
                days |-> getTaskDays(arg.task, buildSprintDays(arg.sprint))]
    /\ UNCHANGED <<plannerVars, arg, gw>>

CallCreateTaskSegments ==
    /\ calc = NoCalc
    /\ arg.kind = "task"
    /\ calc' = [fn |-> "createTaskSegments",
                segments |-> createTaskSegments(arg.task, buildSprintDays(arg.sprint))]
    /\ UNCHANGED <<plannerVars, arg, gw>>

\* The bucket memo over a visible list holding the one task.
CallDayBuckets ==
    /\ calc = NoCalc
    /\ arg.kind = "task"
    /\ calc' = [fn |-> "dayBuckets",
                buckets |-> dayBuckets(<<arg.task>>, buildSprintDays(arg.sprint)),
                unplanned |-> unplannedTasks(<<arg.task>>, buildSprintDays(arg.sprint))]
    /\ UNCHANGED <<plannerVars, arg, gw>>

\* The sprint calendar is loaded (and sorted), then the initial-sprint
\* effect runs with the selection it finds.
CallInitialSprint ==
    /\ calc = NoCalc
    /\ arg.kind = "sprints"
    /\ calc' = [fn |-> "initialSprint",
                sorted |-> SortByStartDesc(arg.list),
                selected |-> InitialSprintEffect(arg.selected, SortByStartDesc(arg.list),
                                                 arg.now)]
    /\ UNCHANGED <<plannerVars, arg, gw>>

\* handleTaskMove for a sprint day, answered by the tracking service with
\* the values sent: the task as the planner's list holds it afterwards.
MovedTask(task, targetDayKey) ==
    IF getTaskDayKey(task) = targetDayKey THEN task
    ELSE LET body == PatchBody(MoveUpdates(targetDayKey), task.name)
         IN [task EXCEPT !.dueDate = body.due_date, !.startDate = body.start_date]

CallMoveTask(key) ==
    /\ calc = NoCalc
    /\ arg.kind = "task"
    /\ key \in SeqRange(buildSprintDays(arg.sprint))
    /\ calc' = [fn |-> "moveTask", key |-> key,
                sent |-> getTaskDayKey(arg.task) # key,
                task |-> MovedTask(arg.task, key)]
    /\ UNCHANGED <<plannerVars, arg, gw>>

CalcNext ==
    \/ \E key \in 1..(MaxCalcDay + SprintLength) : CallMoveTask(key)
    \/ CallBuildSprintDays
    \/ \E key \in 1..(MaxCalcDay + SprintLength) : CallKeyToTimestamp(key)
    \/ CallGetTaskDays
    \/ CallCreateTaskSegments
    \/ CallDayBuckets
    \/ CallInitialSprint

CalcSpec == CalcInit /\ [][CalcNext]_vars

\* ======================================================================
\* The gateway's operations run on their own against the tracking service
\* ======================================================================
\* List ids of the tracking service: the current sprint's list, the next
\* sprint's list and the shared backlog list.
CurrentList == "LC"
NextList == "LN"
BacklogList == "LB"

\* taskBelongsToSprint: the list is the task's primary list or one of its
\* secondary locations
taskBelongsToSprint(task, sprintListId) ==
    /\ sprintListId # ""
    /\ (task.home = sprintListId \/ sprintListId \in task.locations)

\* ------------------------------------------------ POST: move to next sprint
\* The task of the tracking service an operation is about: a member of the
\* current sprint's list, as primary list or as secondary location.
MoveTasks ==
    {[home |-> h, locations |-> locs, due_date |-> d, start_date |-> d] :
        h \in {CurrentList, BacklogList},
        locs \in {{}, {CurrentList}},
        d \in {NULL, Timestamp(1, NoonSlot), Timestamp(2, 0), Timestamp(4, 0),
               Timestamp(8, NoonSlot), Timestamp(9, 0)}}

\* handleMoveToNextSprint: the body of the POST for the drawer's task. The
\* current sprint may lack either date; the next one starts on day 9.
MovePayloads(task) ==
    {[taskId |-> "t", currentSprintListId |-> CurrentList, nextSprintListId |-> NextList,
      nextSprintFirstMonday |-> Timestamp(9, 0),
      currentSprintStartDate |-> sd, currentSprintEndDate |-> ed,
      taskDueDate |-> IF Falsy(task.due_date) THEN NULL ELSE task.due_date] :
        sd \in {NULL, Timestamp(2, 0)}, ed \in {NULL, Timestamp(8, NoonSlot)}}

\* Step 4 with the window's bounds excluded
shouldUpdateDatesInside(payload) ==
    /\ payload.taskDueDate # NULL
    /\ payload.currentSprintStartDate # NULL
    /\ payload.currentSprintEndDate # NULL
    /\ payload.taskDueDate > payload.currentSprintStartDate
    /\ payload.taskDueDate < payload.currentSprintEndDate

\* POST step 4: the task's due date lies in the current sprint's window
shouldUpdateDates(payload) ==
    /\ payload.taskDueDate # NULL
    /\ payload.currentSprintStartDate # NULL
    /\ payload.currentSprintEndDate # NULL
    /\ payload.taskDueDate >= payload.currentSprintStartDate
    /\ payload.taskDueDate <= payload.currentSprintEndDate

\* POST step 2: the call that follows the fetch of the task
AfterGetTask(task, payload, backlogId) ==
    IF task.home # payload.currentSprintListId THEN "removeSecondary"
    ELSE IF backlogId # "" THEN "moveToGeneral"
    ELSE "addNext"

\* POST steps 4 and 5: the call that follows the add to the next sprint
AfterAddNext(payload) == IF shouldUpdateDates(payload) THEN "putDates" ELSE "getUpdated"

\* DELETE /list/{list}/task/{task}: the tracking service takes the task off
\* a secondary location (it does not take a task off its primary list).
RemoveFromList(task, listId) == [task EXCEPT !.locations = @ \ {listId}]
CanRemoveFromList(task, listId) == task.home # listId

\* POST /list/{list}/task/{task}: the tracking service makes the task a
\* member of the list, either as a further location or as its new primary
\* list with the old one kept as a location.
AddToList(task, listId) ==
    {[task EXCEPT !.locations = (@ \cup {listId}) \ {task.home}],
     [task EXCEPT !.home = listId, !.locations = (@ \cup {task.home}) \ {listId}]}

\* One more call to the tracking service answered, ok or not.
Called(ok) == [gw EXCEPT !.calls = @ + 1, !.failed = @ \/ ~ok]

\* The operation returns: ok with the task, or an error with its message.
Return(g, outcome, message) ==
    [g EXCEPT !.pc = "returned", !.outcome = outcome, !.message = message]

MoveInit ==
    \E task \in MoveTasks : \E payload \in MovePayloads(task) :
    \E backlogId \in {BacklogList, ""} :
        /\ taskBelongsToSprint(task, CurrentList)
        /\ arg = [kind |-> "POST", payload |-> payload, backlogId |-> backlogId, task |-> task]
        /\ gw = [op |-> "POST", pc |-> "getTask", task |-> task, calls |-> 0,
                 failed |-> FALSE, datesPut |-> FALSE, outcome |-> "none", message |-> "",
                 local |-> TRUE, drawerError |-> ""]

\* 1. GET /task/{id}?include_location=true
PostGetTask(ok) ==
    /\ gw.op = "POST" /\ gw.pc = "getTask"
    /\ gw' = IF ok
             THEN [Called(ok) EXCEPT !.pc = AfterGetTask(gw.task, arg.payload, arg.backlogId)]
             ELSE Return(Called(ok), "error", "Failed to fetch current task.")
    /\ UNCHANGED <<plannerVars, arg, calc>>

\* 2. the current sprint is a secondary location: DELETE it; a refusal is
\* only logged
PostRemoveSecondary(ok) ==
    /\ gw.op = "POST" /\ gw.pc = "removeSecondary"
    /\ ok => CanRemoveFromList(gw.task, arg.payload.currentSprintListId)
    /\ gw' = [Called(ok) EXCEPT
                !.pc = "addNext",
                !.task = IF ok THEN RemoveFromList(@, arg.payload.currentSprintListId) ELSE @]
    /\ UNCHANGED <<plannerVars, arg, calc>>

\* 2. the current sprint is the primary list: POST the task to the backlog
\* list; when that is refused the removal is skipped
PostMoveToGeneral(ok) ==
    /\ gw.op = "POST" /\ gw.pc = "moveToGeneral"
    /\ \E moved \in (IF ok THEN AddToList(gw.task, arg.backlogId) ELSE {gw.task}) :
          gw' = [Called(ok) EXCEPT !.pc = IF ok THEN "removePrimary" ELSE "addNext",
                                   !.task = moved]
    /\ UNCHANGED <<plannerVars, arg, calc>>

\* 2. then DELETE the current sprint's list; the answer is not looked at
\* beyond a log line
PostRemovePrimary(ok) ==
    /\ gw.op = "POST" /\ gw.pc = "removePrimary"
    /\ ok => CanRemoveFromList(gw.task, arg.payload.currentSprintListId)
    /\ gw' = [Called(ok) EXCEPT
                !.pc = "addNext",
                !.task = IF ok THEN RemoveFromList(@, arg.payload.currentSprintListId) ELSE @]
    /\ UNCHANGED <<plannerVars, arg, calc>>

\* 3. POST the task to the next sprint's list
PostAddNext(ok) ==
    /\ gw.op = "POST" /\ gw.pc = "addNext"
    /\ \E added \in (IF ok THEN AddToList(gw.task, arg.payload.nextSprintListId)
                     ELSE {gw.task}) :
          gw' = IF ok
                THEN [Called(ok) EXCEPT !.pc = AfterAddNext(arg.payload), !.task = added]
                ELSE Return(Called(ok), "error", "Failed to add task to next sprint list.")
    /\ UNCHANGED <<plannerVars, arg, calc>>

\* 4. PUT the next sprint's firstMonday as due and start date
PostPutDates(ok) ==
    /\ gw.op = "POST" /\ gw.pc = "putDates"
    /\ gw' = IF ok
             THEN [Called(ok) EXCEPT
                     !.pc = "getUpdated", !.datesPut = TRUE,
                     !.task = [@ EXCEPT !.due_date = arg.payload.nextSprintFirstMonday,
                                        !.start_date = arg.payload.nextSprintFirstMonday]]
             ELSE Return([Called(ok) EXCEPT !.datesPut = TRUE], "error",
                         "Failed to update task dates.")
    /\ UNCHANGED <<plannerVars, arg, calc>>

\* 5. GET the task again and return it
PostGetUpdated(ok) ==
    /\ gw.op = "POST" /\ gw.pc = "getUpdated"
    /\ gw' = IF ok THEN Return(Called(ok), "ok", "")
             ELSE Return(Called(ok), "error", "Failed to fetch updated task.")
    /\ UNCHANGED <<plannerVars, arg, calc>>

\* handleMoveToNextSprint after its await: on success the task is dropped
\* from the local list, on failure the message goes to the drawer.
MoveToNextSprintResume ==
    /\ gw.op = "POST" /\ gw.pc = "returned"
    /\ gw' = [gw EXCEPT !.pc = "closed",
                        !.local = IF gw.outcome = "ok" THEN FALSE ELSE @,
                        !.drawerError = IF gw.outcome = "ok" THEN @ ELSE gw.message]
    /\ UNCHANGED <<plannerVars, arg, calc>>

\* ------------------------------------------------- GET: tasks of a sprint
\* Tasks the tracking service may hold: in the sprint's list only, in the
\* backlog with the sprint as secondary location (listed by both queries),
\* in the backlog only, done in the sprint's list, in the backlog with
\* another sprint as location.
GatewayTasks ==
    <<[id |-> "a", home |-> CurrentList, locations |-> {}, done |-> FALSE, assignees |-> <<"m1">>],
      [id |-> "b", home |-> BacklogList, locations |-> {CurrentList}, done |-> FALSE,
       assignees |-> <<"m2", "m1">>],
      [id |-> "c", home |-> BacklogList, locations |-> {}, done |-> FALSE, assignees |-> <<"m1">>],
      [id |-> "d", home |-> CurrentList, locations |-> {}, done |-> TRUE, assignees |-> <<"m1">>],
      [id |-> "e", home |-> BacklogList, locations |-> {NextList}, done |-> TRUE,
       assignees |-> <<"m2">>]>>

\* The stores a behaviour starts with: any selection of those tasks.
GatewayStores ==
    {LET Held(t) == t.id \in ids IN SelectSeq(GatewayTasks, Held) :
        ids \in SUBSET {"a", "b", "c", "d", "e"}}

\* GET /list/{list}/task: the tasks the tracking service lists for a list,
\* PageSize to a page.
ListQuery(store, listId) ==
    LET InList(t) == taskBelongsToSprint(t, listId) IN SelectSeq(store, InList)

PageOf(list, page) ==
    SubSeq(list, page * PageSize + 1,
           IF (page + 1) * PageSize < Len(list) THEN (page + 1) * PageSize ELSE Len(list))

isDoneStatus(task) == task.done

\* addTask without the taskMap test
addTaskAgain(allTasks, task) == Append(allTasks, task)

\* addTask: push unless the id was seen
addTask(allTasks, task) ==
    IF \E i \in DOMAIN allTasks : allTasks[i].id = task.id THEN allTasks
    ELSE Append(allTasks, task)

RECURSIVE addTasks(_, _)
addTasks(allTasks, batch) ==
    IF batch = <<>> THEN allTasks
    ELSE addTasks(addTask(allTasks, Head(batch)), Tail(batch))

\* The status and assignee filters of the GET
FilterTasks(allTasks, includeDone, assigneeId) ==
    LET Keep(t) == /\ includeDone \/ ~isDoneStatus(t)
                   /\ assigneeId = "" \/ assigneeId \in SeqRange(t.assignees)
    IN SelectSeq(allTasks, Keep)

GetInit ==
    \E store \in GatewayStores : \E sprintId \in {"", CurrentList} :
    \E backlogId \in {BacklogList, ""} : \E includeDone \in BOOLEAN :
    \E assigneeId \in {"", "m1"} :
        /\ arg = [kind |-> "GET", sprintId |-> sprintId, backlogId |-> backlogId,
                  includeDone |-> includeDone, assigneeId |-> assigneeId, store |-> store]
        /\ gw = [op |-> "GET", pc |-> "config", page |-> 0, collected |-> <<>>,
                 allTasks |-> <<>>, tasks |-> <<>>, calls |-> 0, failed |-> FALSE,
                 outcome |-> "none", message |-> ""]

\* The checks made before anything is fetched
GetConfig ==
    /\ gw.op = "GET" /\ gw.pc = "config"
    /\ gw' = IF arg.sprintId = "" THEN Return(gw, "error", "sprintId is required.")
             ELSE IF arg.backlogId = ""
             THEN Return(gw, "error", "Backend general list ID not configured.")
             ELSE [gw EXCEPT !.pc = "sprintPage"]
    /\ UNCHANGED <<plannerVars, arg, calc>>

\* 1. fetchTasksFromList(sprintListId): one page answered; a refused page
\* ends the loop with what was collected
GetSprintPage(ok) ==
    /\ gw.op = "GET" /\ gw.pc = "sprintPage"
    /\ LET batch == IF ok THEN PageOf(ListQuery(arg.store, arg.sprintId), gw.page) ELSE <<>>
           directTasks == gw.collected \o batch
       IN gw' = IF ok /\ batch # <<>>
                THEN [Called(ok) EXCEPT !.page = @ + 1, !.collected = directTasks]
                ELSE [Called(ok) EXCEPT !.pc = "backlogPage", !.page = 0, !.collected = <<>>,
                                        !.allTasks = addTasks(@, directTasks)]
    /\ UNCHANGED <<plannerVars, arg, calc>>

\* 2. fetchTasksFromList(backEnGeneralListId), then the merge, the filters
\* and the response
GetBacklogPage(ok) ==
    /\ gw.op = "GET" /\ gw.pc = "backlogPage"
    /\ LET batch == IF ok THEN PageOf(ListQuery(arg.store, arg.backlogId), gw.page) ELSE <<>>
           backlogTasks == gw.collected \o batch
           InSprint(t) == taskBelongsToSprint(t, arg.sprintId)
           merged == addTasks(gw.allTasks, SelectSeq(backlogTasks, InSprint))
       IN gw' = IF ok /\ batch # <<>>
                THEN [Called(ok) EXCEPT !.page = @ + 1, !.collected = backlogTasks]
                ELSE Return([Called(ok) EXCEPT
                               !.collected = <<>>, !.allTasks = merged,
                               !.tasks = FilterTasks(merged, arg.includeDone, arg.assigneeId)],
                            "ok", "")
    /\ UNCHANGED <<plannerVars, arg, calc>>

\* ---------------------------------------------------- PATCH: update a task
\* The updates a caller may send: any set of keys, known or not, with null
\* and non-null dates and estimate.
PatchUpdates ==
    {[keys |-> ks, name |-> "N", objective |-> "o", acceptanceCriteria |-> "a",
      assigneeId |-> "m1", dueDate |-> d, startDate |-> sd, timeEstimateMs |-> e] :
        ks \in SUBSET (UpdateKeys \cup {"other"}),
        d \in {NULL, Timestamp(4, 0)}, sd \in {NULL, Timestamp(3, 0)}, e \in {NULL, 6}}

PatchInit ==
    \E updates \in PatchUpdates :
        /\ arg = [kind |-> "PATCH", updates |-> updates, currentName |-> "T1",
                  task |-> RemoteInit["t1"]]
        /\ gw = [op |-> "PATCH", pc |-> "validate", task |-> RemoteInit["t1"],
                 body |-> PatchBody(NoUpdates, ""), calls |-> 0, failed |-> FALSE,
                 outcome |-> "none", message |-> ""]

\* The update body is built; an empty one is refused
PatchValidate ==
    /\ gw.op = "PATCH" /\ gw.pc = "validate"
    /\ \E body \in {PatchBody(arg.updates, arg.currentName)} :
          gw' = IF body.keys = {}
                THEN Return(gw, "error", "No valid fields provided for update.")
                ELSE [gw EXCEPT !.pc = "put", !.body = body]
    /\ UNCHANGED <<plannerVars, arg, calc>>

\* PUT /task/{id} answered
PatchPut(ok) ==
    /\ gw.op = "PATCH" /\ gw.pc = "put"
    /\ gw' = IF ok
             THEN Return([Called(ok) EXCEPT !.task = ApplyBody(@, gw.body)], "ok", "")
             ELSE Return(Called(ok), "error", "Failed to update ClickUp task.")
    /\ UNCHANGED <<plannerVars, arg, calc>>

GatewayInit ==
    /\ PlannerInit
    /\ calc = NoCalc
    /\ (MoveInit \/ GetInit \/ PatchInit)

GatewayNext ==
    \/ GetConfig
    \/ \E ok \in BOOLEAN : GetSprintPage(ok)
    \/ \E ok \in BOOLEAN : GetBacklogPage(ok)
    \/ PatchValidate
    \/ \E ok \in BOOLEAN : PatchPut(ok)
    \/ \E ok \in BOOLEAN : PostGetTask(ok)
    \/ \E ok \in BOOLEAN : PostRemoveSecondary(ok)
    \/ \E ok \in BOOLEAN : PostMoveToGeneral(ok)
    \/ \E ok \in BOOLEAN : PostRemovePrimary(ok)
    \/ \E ok \in BOOLEAN : PostAddNext(ok)
    \/ \E ok \in BOOLEAN : PostPutDates(ok)
    \/ \E ok \in BOOLEAN : PostGetUpdated(ok)
    \/ MoveToNextSprintResume

GatewaySpec == GatewayInit /\ [][GatewayNext]_vars

\* ======================================================================
\* Properties
\* ======================================================================
IdsOf(list) == {list[i].id : i \in DOMAIN list}

\* A mutation request leaves the set of requests in this step: its handler
\* resumed after the await and ran to its end.
Resolves(r) == r \in requests /\ r.status # "sent" /\ r \notin requests'

\* A request is added in this step: its handler ran up to the await.
Starts(r) == r.status = "sent" /\ r \notin requests /\ r \in requests'

\* dayBuckets and unplannedTasks are recomputed from these and nothing else.
BucketInputs == <<allSprintTasks, selectedMemberId, selectedSprintId, sprints>>

\* C1 (rollback law): a move whose remote update rejects leaves the local
\* task list, and with it every day bucket, exactly as it was before the
\* call - neither the step that issues the call nor the step that handles
\* the rejection writes the list or anything else the buckets are computed
\* from - and the rejection raises an error banner.
C1_RollbackLaw ==
    [][/\ \A r \in requests' : (Starts(r) /\ r.kind = "move") =>
              allSprintTasks' = allSprintTasks
       /\ \A r \in requests : (Resolves(r) /\ r.kind = "move" /\ r.status = "err") =>
              /\ BucketInputs' = BucketInputs
              /\ banner' = "error"]_vars

\* A move was rejected while the board shows tasks.
C1_Witness == banner = "error" /\ Len(tasks) > 0 /\ requests = {}

\* C2 (assignee preservation, as specified for moves and drawer saves): when
\* a mutation commits and the returned assignee list is empty or lacks the
\* selected person, the local task keeps the assignee list it had.
C2_AssigneePreservation ==
    [][\A r \in requests :
          (/\ Resolves(r) /\ r.status = "ok"
           /\ FindTask(allSprintTasks, r.taskId) # NoTask
           /\ \/ Len(r.response.assigneeIds) = 0
              \/ selectedMemberId \notin SeqRange(r.response.assigneeIds))
          => FindTask(allSprintTasks', r.taskId).assigneeIds =
                 FindTask(allSprintTasks, r.taskId).assigneeIds]_vars

\* C3 (optimistic write, as specified): while a mutation of a task is
\* unresolved the local task already shows the values sent.
C3_OptimisticWrite ==
    \A r \in requests :
        LET t == FindTask(allSprintTasks, r.taskId)
        IN t # NoTask => (t.dueDate = r.updates.dueDate /\ t.startDate = r.updates.startDate)

\* C4 (abort on supersede): every fetch in flight for a sprint other than
\* the selected one is cancelled; a cancelled fetch settles without writing
\* the task list, the error state or the loading flag; and once no fetch is
\* in flight the list holds the selected sprint's tasks (or is empty after a
\* failed fetch).
C4_AbortOnSupersede ==
    /\ [](\A f \in fetches : f.sprint # selectedSprintId => f.aborted)
    /\ []((fetches = {} /\ selectedSprintId # "") =>
            IF tasksError = ""
            THEN IdsOf(allSprintTasks) = IdsOf(FetchSprintTasks(remote, selectedSprintId))
            ELSE allSprintTasks = <<>>)
    /\ [][\A f \in fetches : (f.aborted /\ f \notin fetches') =>
              /\ allSprintTasks' = allSprintTasks
              /\ tasksError' = tasksError
              /\ tasksLoading' = tasksLoading]_vars

\* The first sprint's fetch was superseded, the second sprint's response
\* arrived first and the cancelled fetch is still to settle.
C4_Witness ==
    /\ selectedSprintId = SprintB.id
    /\ [sprint |-> SprintA.id, aborted |-> TRUE] \in fetches
    /\ ~tasksLoading /\ tasksError = ""
    /\ IdsOf(allSprintTasks) = {"t3"}

\* C5 (busy exclusivity, as specified): at most one remote update is in
\* flight per task id.
C5_BusyExclusivity ==
    \A t \in TaskIds : Cardinality({r \in requests : r.taskId = t}) <= 1

\* The fields a mutation writes (the assignee list is reconciled apart).
DataFields(t) ==
    [name |-> t.name, objective |-> t.objective, acceptanceCriteria |-> t.acceptanceCriteria,
     dueDate |-> t.dueDate, startDate |-> t.startDate, timeEstimate |-> t.timeEstimate]

\* C6 (convergence, as specified): once two overlapping mutations of a task
\* have both resolved, the local copy equals the remote task.
C6_Convergence ==
    \A t \in overlapped :
        (/\ ~\E r \in requests : r.taskId = t
         /\ FindTask(allSprintTasks, t) # NoTask)
        => DataFields(FindTask(allSprintTasks, t)) = DataFields(mapClickUpTask(remote[t]))

\* C7 (independence across tasks): the completion of a mutation of one
\* task, committed or rejected, leaves every other task's entry and busy
\* flag as they were, and its own entry is the response (commit) or
\* unchanged (rejection).
C7_Independence ==
    [][\A r \in requests : Resolves(r) =>
          /\ Len(allSprintTasks') = Len(allSprintTasks)
          /\ \A i \in DOMAIN allSprintTasks :
                IF allSprintTasks[i].id # r.taskId
                THEN allSprintTasks'[i] = allSprintTasks[i]
                ELSE IF r.status = "ok"
                     THEN DataFields(allSprintTasks'[i]) = DataFields(r.response)
                     ELSE allSprintTasks'[i] = allSprintTasks[i]
          /\ \A t \in TaskIds \ {r.taskId} :
                (t \in pendingTaskIds') <=> (t \in pendingTaskIds)]_vars

\* Mutations of two different tasks were pending together; the one started
\* later has completed and changed its task while the first has been
\* rejected by the service and is still to be handled.
C7_Witness ==
    /\ nMutations = 2
    /\ \E r \in requests :
          /\ r.rid = 1 /\ r.status = "err" /\ requests = {r}
          /\ \E i \in DOMAIN allSprintTasks :
                /\ allSprintTasks[i].id # r.taskId
                /\ allSprintTasks[i] # mapClickUpTask(RemoteInit[allSprintTasks[i].id])

\* The tracking service answers request r, one way or the other.
Respond(r) == ServerApply(r) \/ ServerReject(r)

\* The handler awaiting r resumes.
Resume(r) == MoveCommit(r) \/ MoveReject(r) \/ SaveCommit(r) \/ SaveReject(r)

\* Every remote call is answered and every answered handler is resumed by
\* the event loop.
FairSpec ==
    /\ Spec
    /\ \A rid \in 1..MaxReq :
          /\ WF_vars(\E r \in requests : r.rid = rid /\ Respond(r))
          /\ WF_vars(\E r \in requests : r.rid = rid /\ Resume(r))

InFlight(rid) == \E r \in requests : r.rid = rid

\* C8 (every started mutation completes): a remote update in flight is
\* eventually resolved and a busy flag that is set is eventually cleared,
\* whatever sprint or person is selected meanwhile; the step that completes
\* a move clears the task's busy flag, the step that completes a drawer
\* save clears the saving flag.
C8_MutationCompletes ==
    /\ \A rid \in 1..MaxReq : InFlight(rid) ~> ~InFlight(rid)
    /\ \A t \in TaskIds : (t \in pendingTaskIds) ~> (t \notin pendingTaskIds)
    /\ [][\A r \in requests : Resolves(r) =>
              IF r.kind = "move" THEN r.taskId \notin pendingTaskIds'
                                 ELSE drawerSaving' = FALSE]_vars

\* A move is in flight, its task is marked busy, and the sprint shown is no
\* longer the one the task was moved in.
C8_Witness ==
    \E r \in requests :
        /\ r.kind = "move" /\ r.taskId \in pendingTaskIds
        /\ remote[r.taskId].sprint # selectedSprintId
        /\ selectedSprintId # ""

\* What the board shows of a task.
Observable(t, days) ==
    [name |-> t.name, objective |-> t.objective, acceptanceCriteria |-> t.acceptanceCriteria,
     assigneeIds |-> t.assigneeIds, hours |-> msToHours(t.timeEstimate),
     dayKey |-> getTaskDayKey(t), days |-> getTaskDays(t, days)]

ObservableList(list, days) == [i \in DOMAIN list |-> Observable(list[i], days)]

\* C9 (idempotence of saveTaskEdits, as specified): saving the drawer form as
\* prefilled from the task's current state, answered by the service with
\* exactly the task it stored, leaves the visible list observably unchanged.
C9_SaveIdempotent ==
    [][\A r \in requests :
          (/\ Resolves(r) /\ r.kind = "save" /\ r.status = "ok"
           /\ FindTask(tasks, r.taskId) # NoTask
           /\ r.updates = SaveUpdates(SubmitPayload(Prefill(FindTask(tasks, r.taskId))))
           /\ r.response = mapClickUpTask(remote[r.taskId]))
          => ObservableList(tasks, sprintDays)' = ObservableList(tasks, sprintDays)]_vars

\* C10 (as specified): every visible task is in the unplanned bucket or in
\* one of the seven day buckets.
C10_NoTaskLost ==
    \A i \in DOMAIN tasks :
        \/ \E j \in DOMAIN unplannedTasks(tasks, sprintDays) :
              unplannedTasks(tasks, sprintDays)[j].id = tasks[i].id
        \/ \E b \in DOMAIN dayBuckets(tasks, sprintDays) :
              \E j \in DOMAIN dayBuckets(tasks, sprintDays)[b] :
                  dayBuckets(tasks, sprintDays)[b][j].taskId = tasks[i].id

\* ------------------------------------------------------------------ C11
\* C11: a task whose dueDate is null, whatever its startDate, its estimate
\* and the sprint window it is shown in, occupies no day, produces zero
\* segments, is the content of the unplanned list and is in no day bucket.
C11_NoDueDateUnplanned ==
    (arg.kind = "task" /\ arg.task.dueDate = NULL) =>
        /\ calc.fn = "getTaskDays" => calc.days = <<>>
        /\ calc.fn = "createTaskSegments" => calc.segments = <<>>
        /\ calc.fn = "dayBuckets" =>
              /\ calc.unplanned = <<arg.task>>
              /\ \A i \in DOMAIN calc.buckets : calc.buckets[i] = <<>>

\* A task with a start date and an estimate but no due date, bucketed over a
\* seven-day window that contains its start date.
C11_Witness ==
    /\ calc.fn = "dayBuckets"
    /\ arg.task.dueDate = NULL
    /\ arg.task.startDate = Timestamp(4, 0)
    /\ arg.task.timeEstimate = 5
    /\ Len(calc.buckets) = SprintLength
    /\ calc.unplanned = <<arg.task>>

\* ------------------------------------------------------------------ C12
\* The day of the task's start and of its due date, and the days between.
SpanFirst == DayOf(arg.task.startDate)
SpanLast == DayOf(arg.task.dueDate)
SpanLength == SpanLast - SpanFirst + 1

\* The task's start and due date both fall on days of the sprint window,
\* the start not after the due date.
SpanInsideWindow ==
    /\ arg.kind = "task"
    /\ arg.task.startDate # NULL
    /\ arg.task.dueDate # NULL
    /\ SpanFirst <= SpanLast
    /\ SpanFirst \in SeqRange(buildSprintDays(arg.sprint))
    /\ SpanLast \in SeqRange(buildSprintDays(arg.sprint))

\* C12: a task whose start and due date lie inside the sprint window and
\* span n consecutive days occupies exactly those n days in chronological
\* order and has n segments, one per day in that order, each of
\* estimateHours / n hours; only the first has isStart and only the last has
\* isEnd (for n = 1 the single segment has both).
C12_EvenSplit ==
    SpanInsideWindow =>
        /\ calc.fn = "getTaskDays" =>
              /\ Len(calc.days) = SpanLength
              /\ \A i \in 1..SpanLength : calc.days[i] = SpanFirst + i - 1
        /\ calc.fn = "createTaskSegments" =>
              /\ Len(calc.segments) = SpanLength
              /\ \A i \in 1..SpanLength :
                    /\ calc.segments[i].dayKey = SpanFirst + i - 1
                    /\ calc.segments[i].hoursNum = msToHours(arg.task.timeEstimate)
                    /\ calc.segments[i].hoursDen = SpanLength
                    /\ calc.segments[i].isStart <=> i = 1
                    /\ calc.segments[i].isEnd <=> i = SpanLength
              /\ Cardinality({i \in 1..SpanLength : calc.segments[i].isStart}) = 1
              /\ Cardinality({i \in 1..SpanLength : calc.segments[i].isEnd}) = 1

\* A three-day task with a positive estimate, segmented inside the window.
C12_Witness ==
    /\ SpanInsideWindow
    /\ calc.fn = "createTaskSegments"
    /\ SpanLength = 3
    /\ arg.task.timeEstimate = 5
    /\ Len(calc.segments) = 3

\* ------------------------------------------------------------------ C13
RECURSIVE SumHoursNum(_)
SumHoursNum(segs) ==
    IF segs = <<>> THEN 0 ELSE Head(segs).hoursNum + SumHoursNum(Tail(segs))

\* Sum over the day buckets of the numerators of their segments' hours.
RECURSIVE PlacedHoursNum(_)
PlacedHoursNum(buckets) ==
    IF buckets = <<>> THEN 0
    ELSE SumHoursNum(Head(buckets)) + PlacedHoursNum(Tail(buckets))

\* C13: for a task that produces at least one segment, the hours of its
\* segments placed in the day buckets add up to its estimate in hours: the
\* placed numerators, over the common denominator (the number of days the
\* task occupies), equal msToHours of the estimate.
C13_PlacedHoursSum ==
    (calc.fn = "dayBuckets" /\ calc.unplanned = <<>>) =>
        PlacedHoursNum(calc.buckets) =
            msToHours(arg.task.timeEstimate)
                * Len(getTaskDays(arg.task, buildSprintDays(arg.sprint)))

\* ------------------------------------------------------------------ C14
\* The sprint has an anchor: firstMonday, or startDate when firstMonday is
\* absent.
HasAnchor ==
    /\ arg.kind = "task"
    /\ arg.sprint # NoSprint
    /\ (arg.sprint.firstMonday # NULL \/ arg.sprint.startDate # NULL)

AnchorDay ==
    IF arg.sprint.firstMonday # NULL THEN DayOf(arg.sprint.firstMonday)
    ELSE DayOf(arg.sprint.startDate)

\* C14: buildSprintDays returns the empty sequence for no sprint and for a
\* sprint with neither firstMonday nor startDate; otherwise exactly seven
\* days, the first the anchor's calendar day, each the day after the one
\* before, with seven pairwise distinct keys.
C14_SevenConsecutiveDays ==
    (arg.kind = "task" /\ calc.fn = "buildSprintDays") =>
        IF HasAnchor
        THEN /\ Len(calc.days) = 7
             /\ calc.days[1] = AnchorDay
             /\ \A i \in 1..6 : calc.days[i + 1] = calc.days[i] + 1
             /\ Cardinality(SeqRange(calc.days)) = 7
        ELSE calc.days = <<>>

\* The week of a sprint whose firstMonday and startDate are different days.
C14_Witness ==
    /\ calc.fn = "buildSprintDays"
    /\ arg.sprint # NoSprint
    /\ arg.sprint.firstMonday = Timestamp(3, NoonSlot)
    /\ arg.sprint.startDate = Timestamp(2, NoonSlot)
    /\ Len(calc.days) = 7

\* ------------------------------------------------------------------ C15
\* The task as it is stored after a move to the day of the parsed key.
StoredOnKey == [arg.task EXCEPT !.dueDate = calc.ts, !.startDate = calc.ts]

\* C15: for every key produced by buildSprintDays, keyToTimestamp gives a
\* timestamp whose formatted key is that key again, and a task stored with
\* that timestamp as due and start date has its one segment in the bucket
\* of that day and in no other.
C15_DayKeyRoundTrip ==
    (arg.kind = "task" /\ calc.fn = "keyToTimestamp") =>
        /\ calc.key \in SeqRange(buildSprintDays(arg.sprint))
        /\ calc.ts # NULL
        /\ formatDateKey(calc.ts) = calc.key
        /\ getTaskDayKey(StoredOnKey) = calc.key
        /\ LET days == buildSprintDays(arg.sprint)
               buckets == dayBuckets(<<StoredOnKey>>, days)
           IN \A i \in DOMAIN days :
                 Len(buckets[i]) = (IF days[i] = calc.key THEN 1 ELSE 0)

\* The last key of a week parsed.
C15_Witness ==
    /\ calc.fn = "keyToTimestamp"
    /\ calc.key = 9
    /\ buildSprintDays(arg.sprint)[SprintLength] = 9
    /\ calc.ts = Timestamp(9, NoonSlot)

\* ------------------------------------------------------------------ C16
\* The loaded sprints, and how each stands to the current instant.
Loaded == SeqRange(arg.list)
ContainsNow(s) ==
    /\ s.startDate # NULL /\ s.endDate # NULL
    /\ s.startDate <= arg.now /\ arg.now <= s.endDate
IsFuture(s) == s.startDate # NULL /\ s.startDate > arg.now
IsPast(s) == s.endDate # NULL /\ s.endDate < arg.now

\* Steps 1 to 3 of the initial selection, and whether one of them applies.
PreferredChoice(id) ==
    IF \E s \in Loaded : ContainsNow(s)
    THEN \E s \in Loaded : s.id = id /\ ContainsNow(s)
    ELSE IF \E s \in Loaded : IsFuture(s)
    THEN \E s \in Loaded :
            /\ s.id = id /\ IsFuture(s)
            /\ \A o \in Loaded : IsFuture(o) => s.startDate <= o.startDate
    ELSE \E s \in Loaded :
            /\ s.id = id /\ IsPast(s)
            /\ \A o \in Loaded : IsPast(o) => s.endDate >= o.endDate
HasPreferred == \E s \in Loaded : ContainsNow(s) \/ IsFuture(s) \/ IsPast(s)

\* The start date the sprint list is ordered by (a missing one counts as 0).
StartOrZero(s) == IF s.startDate = NULL THEN 0 ELSE s.startDate

\* The loaded sprint with the latest start date, the earliest loaded of
\* those that tie.
LatestStarted(id) ==
    \E i \in DOMAIN arg.list :
        /\ arg.list[i].id = id
        /\ \A j \in DOMAIN arg.list :
              \/ StartOrZero(arg.list[j]) < StartOrZero(arg.list[i])
              \/ StartOrZero(arg.list[j]) = StartOrZero(arg.list[i]) /\ i <= j

\* C16 as specified: the initial selection is a sprint containing now, else
\* the future sprint starting earliest, else the past sprint ending latest,
\* else the first sprint of the loaded list; a selection already made is
\* kept.
C16_FirstOfLoadedList ==
    (arg.kind = "sprints" /\ calc.fn = "initialSprint") =>
        IF arg.selected # "" \/ arg.list = <<>> THEN calc.selected = arg.selected
        ELSE IF HasPreferred THEN PreferredChoice(calc.selected)
        ELSE calc.selected = arg.list[1].id

\* C16 amended: as above, but when no sprint contains now, is future or is
\* past, the selection is the loaded sprint with the latest start date (the
\* first of the list as the planner keeps it, sorted by start date
\* descending), the earliest loaded among those that tie.
C16_InitialSprint ==
    (arg.kind = "sprints" /\ calc.fn = "initialSprint") =>
        IF arg.selected # "" \/ arg.list = <<>> THEN calc.selected = arg.selected
        ELSE IF HasPreferred THEN PreferredChoice(calc.selected)
        ELSE LatestStarted(calc.selected)

\* A list loaded with an undated sprint before a started, open-ended one:
\* neither is current, future or past, and the second one is selected.
C16_Witness ==
    /\ calc.fn = "initialSprint"
    /\ arg.selected = ""
    /\ Len(arg.list) = 2
    /\ arg.list[1].id = "P5"
    /\ arg.list[2].id = "P6"
    /\ arg.now = Timestamp(10, NoonSlot)
    /\ ~HasPreferred
    /\ calc.selected = "P6"

\* ------------------------------------------------------------------ C17
\* Positions of the sprint's task list whose task has the selected person
\* among its assignees (none when no person is selected).
AssignedPositions ==
    {i \in DOMAIN allSprintTasks :
        /\ selectedMemberId # ""
        /\ \E k \in DOMAIN allSprintTasks[i].assigneeIds :
              allSprintTasks[i].assigneeIds[k] = selectedMemberId}

\* The visible list is the sprint's list restricted to those positions, in
\* the same order.
IsAssigneeFilter ==
    /\ Len(tasks) = Cardinality(AssignedPositions)
    /\ \E pos \in [DOMAIN tasks -> AssignedPositions] :
          /\ \A j, k \in DOMAIN tasks : j < k => pos[j] < pos[k]
          /\ \A j \in DOMAIN tasks : tasks[j] = allSprintTasks[pos[j]]

\* A step that changes the selected person starts or ends no fetch and
\* leaves the sprint's task list and its loading flag as they are.
PersonChangeKeepsList ==
    selectedMemberId' # selectedMemberId =>
        /\ fetches' = fetches
        /\ allSprintTasks' = allSprintTasks
        /\ tasksLoading' = tasksLoading

FetchFails == tasksError = "" /\ tasksError' # ""

\* C18: when the fetch of a sprint's tasks fails without having been
\* aborted, the list of all tasks of the sprint is left as it was, and the
\* failure is shown as an error message.
C18_FailedReadKeepsList ==
    [][FetchFails => allSprintTasks' = allSprintTasks /\ tasksError' = "error"]_vars

\* ------------------------------------------------------------------ C19
MoveRequests == {r \in requests : r.kind = "move"}

\* What the gateway puts in the body for the tracking service.
Forwarded(r) == PatchBody(r.updates, r.currentName)

\* C19: every move request in flight carries both dueDate and startDate; for
\* the target 'unplanned' both are null and the gateway forwards due_date
\* and start_date as null; for a sprint day both are the same non-null
\* timestamp, which formats to that day, and are forwarded as they are.
C19_MoveDates ==
    \A r \in MoveRequests :
        /\ {"dueDate", "startDate"} \subseteq r.updates.keys
        /\ {"due_date", "start_date"} \subseteq Forwarded(r).keys
        /\ r.updates.dueDate = r.updates.startDate
        /\ Forwarded(r).due_date = r.updates.dueDate
        /\ Forwarded(r).start_date = r.updates.startDate
        /\ IF r.target = UNPLANNED_KEY
           THEN r.updates.dueDate = NULL
           ELSE /\ r.updates.dueDate # NULL
                /\ formatDateKey(r.updates.dueDate) = r.target

\* A task that is on a sprint day is being moved to 'unplanned', and
\* another request moves a task to a sprint day.
C19_Witness ==
    /\ \E r \in MoveRequests :
          /\ r.target = UNPLANNED_KEY
          /\ r.status = "sent"
          /\ FindTask(allSprintTasks, r.taskId) # NoTask
          /\ getTaskDayKey(FindTask(allSprintTasks, r.taskId)) \in SeqRange(sprintDays)
    /\ \E r \in MoveRequests : r.target \in SeqRange(sprintDays)

\* ------------------------------------------------------------------ C20
\* A step in which the inline error of the hours field appears.
HoursErrorAppears == ~localError /\ localError'

\* Such a step sends nothing and changes neither the task list, the
\* drawer's task, the busy flags nor the tracking service's records.
RejectedLocally ==
    HoursErrorAppears =>
        /\ requests' = requests
        /\ fetches' = fetches
        /\ allSprintTasks' = allSprintTasks
        /\ drawerTask' = drawerTask
        /\ drawerSaving' = drawerSaving
        /\ pendingTaskIds' = pendingTaskIds
        /\ remote' = remote

\* No save in flight was submitted with a non-numeric hours field.
NoSaveOfBadHours == \A r \in requests : r.kind = "save" => r.hours.kind # "text"

\* C20: submitting the editor with a non-numeric hours value sends no
\* request, shows the inline error and changes neither the task list nor
\* the drawer's task.
C20_InvalidHoursRejected == [][RejectedLocally]_vars /\ []NoSaveOfBadHours

\* The inline error is shown in the open drawer while a task list is
\* loaded and nothing is in flight.
C20_Witness ==
    /\ localError
    /\ DrawerOpen
    /\ ~drawerSaving
    /\ requests = {}
    /\ allSprintTasks # <<>>

\* ------------------------------------------------------------------ C21
\* A time estimate that is null or not negative.
ValidEstimate(e) == e = NULL \/ e >= 0

\* C21: whatever is saved from the editor, every update in flight carries a
\* time estimate that is null or >= 0, the gateway forwards such a value,
\* and every task of the local list, the drawer and the tracking service
\* has such an estimate.
C21_EstimateNotNegative ==
    /\ \A r \in requests :
          /\ ValidEstimate(r.updates.timeEstimateMs)
          /\ ValidEstimate(PatchBody(r.updates, r.currentName).time_estimate)
          /\ r.response # NoTask => ValidEstimate(r.response.timeEstimate)
    /\ \A i \in DOMAIN allSprintTasks : ValidEstimate(allSprintTasks[i].timeEstimate)
    /\ DrawerOpen => ValidEstimate(drawerTask.timeEstimate)
    /\ \A t \in TaskIds : ValidEstimate(remote[t].timeEstimate)

\* An estimate typed into the editor has been saved and is in the local
\* list and in the tracking service.
C21_Witness ==
    \E i \in DOMAIN allSprintTasks :
        /\ allSprintTasks[i].timeEstimate = hoursToMs(3)
        /\ remote[allSprintTasks[i].id].timeEstimate = hoursToMs(3)
        /\ nMutations > 0

\* ------------------------------------------------------------------ C22
\* The update names none of the fields the gateway writes.
SetsNoField == arg.updates.keys \cap UpdateKeys = {}

\* The PATCH has got past building the body.
PatchDecided == gw.op = "PATCH" /\ gw.pc # "validate"

\* C22: an update that sets no field is answered with an error and a
\* message, without a call to the tracking service and with the task as it
\* was; an update that sets a field is sent, and when it has dueDate but no
\* startDate the start date sent is the due date sent.
C22_EmptyUpdateRejected ==
    PatchDecided =>
        IF SetsNoField
        THEN /\ gw.pc = "returned" /\ gw.outcome = "error" /\ gw.message # ""
             /\ gw.calls = 0
             /\ gw.task = arg.task
        ELSE /\ gw.pc = "put" \/ gw.calls = 1
             /\ ("dueDate" \in arg.updates.keys /\ "startDate" \notin arg.updates.keys) =>
                   /\ {"due_date", "start_date"} \subseteq gw.body.keys
                   /\ gw.body.due_date = arg.updates.dueDate
                   /\ gw.body.start_date = arg.updates.dueDate
                   /\ gw.outcome = "ok" => gw.task.startDate = arg.updates.dueDate

\* An update that names an unknown key only has been refused.
C22_Witness ==
    /\ gw.op = "PATCH" /\ gw.pc = "returned"
    /\ arg.updates.keys = {"other"}
    /\ gw.outcome = "error"
    /\ gw.calls = 0

\* ------------------------------------------------------------------ C23
\* C23: an operation during which the tracking service answered a call
\* with a non-success response does not return a success outcome, and a
\* failure outcome carries a message.
C23_FailureSurfaces ==
    gw.op # "none" =>
        /\ (gw.failed /\ gw.pc \in {"returned", "closed"}) => gw.outcome = "error"
        /\ gw.outcome = "error" => gw.message # ""

\* ------------------------------------------------------------------ C24
\* The operation needs the backlog list id: every GET with a sprint id, and
\* the POST for a task whose primary list is the current sprint's.
NeedsBacklogId ==
    \/ gw.op = "GET" /\ arg.sprintId # ""
    \/ gw.op = "POST" /\ arg.task.home = arg.payload.currentSprintListId

\* C24: an operation that needs the backlog list id while it cannot be
\* resolved issues no call to the tracking service and returns an error.
C24_AbortedBeforeAnyCall ==
    (gw.op # "none" /\ NeedsBacklogId /\ arg.backlogId = "") =>
        /\ gw.calls = 0
        /\ gw.pc \in {"returned", "closed"} => gw.outcome = "error"

\* ------------------------------------------------------------------ C25
\* C25: when the move to the next sprint reports success, the task of the
\* tracking service belongs to the next sprint's list and no longer to the
\* current sprint's, and the planner has dropped it from its list.
C25_MovedOnSuccess ==
    (gw.op = "POST" /\ gw.outcome = "ok") =>
        /\ taskBelongsToSprint(gw.task, arg.payload.nextSprintListId)
        /\ ~taskBelongsToSprint(gw.task, arg.payload.currentSprintListId)
        /\ gw.pc = "closed" => ~gw.local

\* ------------------------------------------------------------------ C26
\* The task's due date is not null and lies in the current sprint's
\* [startDate, endDate], both known, bounds included.
DueInCurrentSprint ==
    /\ arg.task.due_date # NULL
    /\ arg.payload.currentSprintStartDate # NULL
    /\ arg.payload.currentSprintEndDate # NULL
    /\ arg.payload.currentSprintStartDate <= arg.task.due_date
    /\ arg.task.due_date <= arg.payload.currentSprintEndDate

DatesOf(task) == <<task.due_date, task.start_date>>

\* C26: the move to the next sprint sends a date update only when the
\* task's due date lies in the current sprint's window; once step 4 is past
\* the task's due and start date are the next sprint's firstMonday if it
\* does and are what they were if it does not, and until then and whenever
\* it does not they are unchanged.
C26_DatesRewrittenIffInWindow ==
    gw.op = "POST" =>
        /\ gw.datesPut => DueInCurrentSprint
        /\ ~DueInCurrentSprint => DatesOf(gw.task) = DatesOf(arg.task)
        /\ (gw.pc = "getUpdated" \/ gw.outcome = "ok") =>
              DatesOf(gw.task) =
                 IF DueInCurrentSprint
                 THEN <<arg.payload.nextSprintFirstMonday, arg.payload.nextSprintFirstMonday>>
                 ELSE DatesOf(arg.task)
        /\ gw.pc \in {"getTask", "removeSecondary", "moveToGeneral", "removePrimary",
                      "addNext", "putDates"} => DatesOf(gw.task) = DatesOf(arg.task)

\* A task due at the very end of the current sprint has been moved and its
\* dates rewritten.
C26_Witness ==
    /\ gw.op = "POST" /\ gw.outcome = "ok"
    /\ arg.task.due_date = arg.payload.currentSprintEndDate
    /\ arg.task.due_date = Timestamp(8, NoonSlot)
    /\ gw.task.due_date = Timestamp(9, 0)
    /\ gw.task.start_date = Timestamp(9, 0)

\* ------------------------------------------------------------------ C27
\* C27: the tasks the GET returns have pairwise different ids, each belongs
\* to the sprint's list as primary list or as secondary location, and none
\* is done unless includeDone is set.
C27_MergedOnce ==
    (gw.op = "GET" /\ gw.outcome = "ok") =>
        /\ \A i, j \in DOMAIN gw.tasks : gw.tasks[i].id = gw.tasks[j].id => i = j
        /\ \A i \in DOMAIN gw.tasks :
              /\ gw.tasks[i].home = arg.sprintId \/ arg.sprintId \in gw.tasks[i].locations
              /\ arg.includeDone \/ ~gw.tasks[i].done
              /\ \E k \in DOMAIN arg.store : arg.store[k] = gw.tasks[i]

\* A task listed by the sprint-list query and by the backlog query is
\* returned, next to a task of the sprint's list, all pages answered.
C27_Witness ==
    /\ gw.op = "GET" /\ gw.outcome = "ok" /\ ~gw.failed
    /\ Len(ListQuery(arg.store, arg.sprintId)) = 3
    /\ \E i \in DOMAIN gw.tasks : gw.tasks[i].id = "b"
    /\ \E i \in DOMAIN gw.tasks : gw.tasks[i].id = "a"
    /\ ~arg.includeDone

\* ------------------------------------------------------------------ C30
\* C30: at every step of the move to the next sprint the task belongs to
\* the current sprint's list or to the next sprint's, and when the move has
\* reported failure it still belongs to the current sprint's list, as the
\* planner's list, which keeps it, shows.
C30_NeverInNeitherSprint ==
    gw.op = "POST" =>
        /\ \/ taskBelongsToSprint(gw.task, arg.payload.currentSprintListId)
           \/ taskBelongsToSprint(gw.task, arg.payload.nextSprintListId)
        /\ gw.outcome = "error" =>
              /\ taskBelongsToSprint(gw.task, arg.payload.currentSprintListId)
              /\ gw.local

\* ------------------------------------------------------------------ C28
\* C28: a task id is marked busy in pendingTaskIds exactly when a move or a
\* drawer save of that task is in flight.
C28_BusyFlagAccurate ==
    \A t \in TaskIds : t \in pendingTaskIds <=> \E r \in requests : r.taskId = t

\* ------------------------------------------------------------------ C29
\* The task had a segment in the bucket of a sprint day other than the
\* target before the move.
ShownOnOtherDay ==
    LET days == buildSprintDays(arg.sprint)
        segs == createTaskSegments(arg.task, days)
    IN \E i \in DOMAIN segs : segs[i].dayKey \in SeqRange(days) /\ segs[i].dayKey # calc.key

\* C29: after a move to sprint day X of a task that was shown on another
\* day, the task has exactly one segment, on X, which is start and end and
\* carries the whole estimate.
C29_MovedToSingleDay ==
    (calc.fn = "moveTask" /\ ShownOnOtherDay) =>
        LET segs == createTaskSegments(calc.task, buildSprintDays(arg.sprint))
        IN /\ Len(segs) = 1
           /\ segs[1].dayKey = calc.key
           /\ segs[1].isStart /\ segs[1].isEnd
           /\ segs[1].hoursNum = msToHours(arg.task.timeEstimate)
           /\ segs[1].hoursDen = 1
====
